---- MODULE Spec2Model ----
(***************************************************************************)
(* Page-by-page extraction of OCR_Plus: document normalisation             *)
(* (document_processor.py), per-page extraction, JSON repair and           *)
(* aggregation (page_by_page_extractor.py), and the text-only fallback     *)
(* (data_extractor.py).                                                    *)
(*                                                                         *)
(* A text is a sequence of one-character strings.  A JSON value is a       *)
(* tagged record [k, v]: k is "str" (v a text), "num" (v a natural),       *)
(* "null", "obj" (v a function from key texts to values) or "arr" (v a     *)
(* sequence of values).                                                    *)
(***************************************************************************)
EXTENDS Integers, Sequences, FiniteSets, Bags, TLC

VARIABLES
    file,          \* the input file: what the processing libraries will find
    openai_key,    \* whether OPENAI_API_KEY is set in the environment
    use_azure,     \* PageByPageExtractor.use_azure
    pc,            \* position inside extract_page_by_page
    processed_doc, \* result of process_document
    i,             \* number of pages visited by the extraction loop
    raw,           \* per visited page: what the service call did
    calls,         \* log of extraction-service calls, in call order
    page_results,  \* page_results of extract_page_by_page
    aggregated,    \* accumulator of _aggregate_page_results
    j,             \* number of page results folded into the accumulator
    result,        \* value returned by extract_page_by_page
    fixer,         \* a call of _fix_incomplete_json: its argument and result
    dedup,         \* calls of _deduplicate_list: the argument, then each result
    temp_dir,      \* the files in the directory temp_images, each with the
                   \* number of times it has been written (a bag)
    session,       \* a run of one of the command-line programs
    batch,         \* BatchProcessor: its fields and its position in process_all
    extractor_result, \* value returned by DataExtractor.extract_page_by_page
    comparison,    \* a call of _compare_extraction_results: arguments and outcome
    pdf            \* a call of DocumentProcessor._process_pdf: its locals and position

\* the variables of extract_page_by_page
pipeline == <<file, openai_key, use_azure, pc, processed_doc, i, raw, calls,
              page_results, aggregated, j, result>>

\* the variables of the calls that are followed on their own
others == <<fixer, dedup, session, batch, extractor_result, comparison, pdf>>

vars == <<pipeline, temp_dir, others>>

-----------------------------------------------------------------------------
(* Bounds of the model *)

\* largest number of pages / embedded images of an input document
MaxPages == 3

-----------------------------------------------------------------------------
(* JSON values (the Python objects json.loads builds) *)

Str(s) == [k |-> "str", v |-> s]
Num(n) == [k |-> "num", v |-> n]
Null == [k |-> "null", v |-> 0]
Obj(f) == [k |-> "obj", v |-> f]
Arr(s) == [k |-> "arr", v |-> s]

EmptyMap == [x \in {} |-> Null]
Single(key, val) == [x \in {key} |-> val]

\* isinstance(x, dict), isinstance(x, list)
IsDict(x) == x.k = "obj"
IsList(x) == x.k = "arr"

\* Python truth value of a JSON value: "", 0, None, {} and [] are falsy
Truthy(x) ==
    CASE x.k = "str" -> x.v # <<>>
      [] x.k = "num" -> x.v # 0
      [] x.k = "null" -> FALSE
      [] x.k = "obj" -> DOMAIN x.v # {}
      [] x.k = "arr" -> Len(x.v) > 0

-----------------------------------------------------------------------------
(* Texts *)

Digits == <<"0", "1", "2", "3", "4", "5", "6", "7", "8", "9">>
DigitSet == {Digits[n] : n \in 1..10}
DigitVal(c) == (CHOOSE n \in 1..10 : Digits[n] = c) - 1

\* code-point order of the characters the model's texts are made of
Alphabet == <<" ", "\"", ",", ".", "0", "1", "2", "3", "4", "5", "6", "7", "8", "9",
              ":", "A", "B", "[", "\\", "]", "_", "a", "b", "c", "e", "i", "l",
              "n", "o", "r", "t", "u", "w", "x", "{", "}">>
Ord(c) == CHOOSE n \in 1..Len(Alphabet) : Alphabet[n] = c

RECURSIVE TextLess(_, _)
\* s < t for Python str
TextLess(s, t) ==
    IF t = <<>> THEN FALSE
    ELSE IF s = <<>> THEN TRUE
    ELSE IF Head(s) = Head(t) THEN TextLess(Tail(s), Tail(t))
    ELSE Ord(Head(s)) < Ord(Head(t))

RECURSIVE CountChar(_, _)
\* str.count(c) for a one-character c
CountChar(t, c) ==
    IF t = <<>> THEN 0
    ELSE (IF Head(t) = c THEN 1 ELSE 0) + CountChar(Tail(t), c)

RECURSIVE Repeat(_, _)
Repeat(c, n) == IF n <= 0 THEN <<>> ELSE <<c>> \o Repeat(c, n - 1)

RECURSIVE SkipWs(_, _)
\* first position >= p of t that holds no whitespace (Len(t)+1 if none)
SkipWs(t, p) == IF p <= Len(t) /\ t[p] = " " THEN SkipWs(t, p + 1) ELSE p

-----------------------------------------------------------------------------
(* json.loads *)

NoParse == [ok |-> FALSE, val |-> Null, pos |-> 0]
Parsed(x, p) == [ok |-> TRUE, val |-> x, pos |-> p]

RECURSIVE ParseChars(_, _, _)
\* the body of a string literal from position p (after the opening quote);
\* escapes: \" and \\
ParseChars(t, p, acc) ==
    IF p > Len(t) THEN NoParse
    ELSE IF t[p] = "\"" THEN Parsed(Str(acc), p + 1)
    ELSE IF t[p] = "\\" THEN
        IF p + 1 <= Len(t) /\ t[p + 1] \in {"\"", "\\"}
        THEN ParseChars(t, p + 2, Append(acc, t[p + 1]))
        ELSE NoParse
    ELSE ParseChars(t, p + 1, Append(acc, t[p]))

RECURSIVE ParseDigits(_, _, _)
ParseDigits(t, p, acc) ==
    IF p <= Len(t) /\ t[p] \in DigitSet
    THEN ParseDigits(t, p + 1, 10 * acc + DigitVal(t[p]))
    ELSE Parsed(Num(acc), p)

\* a number: "0", or a non-zero digit followed by digits
ParseNumber(t, p) ==
    IF t[p] = "0" THEN Parsed(Num(0), p + 1) ELSE ParseDigits(t, p, 0)

RECURSIVE ParseValue(_, _)
RECURSIVE ParseMembers(_, _, _)
RECURSIVE ParseElements(_, _, _)

\* members of an object from position p (after "{" or after a ","); a
\* repeated key keeps its last value
ParseMembers(t, p, acc) ==
    LET p1 == SkipWs(t, p) IN
    IF p1 > Len(t) \/ t[p1] # "\"" THEN NoParse
    ELSE
        LET key == ParseChars(t, p1 + 1, <<>>) IN
        IF ~key.ok THEN NoParse
        ELSE
            LET p2 == SkipWs(t, key.pos) IN
            IF p2 > Len(t) \/ t[p2] # ":" THEN NoParse
            ELSE
                LET val == ParseValue(t, p2 + 1) IN
                IF ~val.ok THEN NoParse
                ELSE
                    LET p3 == SkipWs(t, val.pos)
                        acc2 == [x \in DOMAIN acc \cup {key.val.v} |->
                                    IF x = key.val.v THEN val.val ELSE acc[x]]
                    IN
                    IF p3 > Len(t) THEN NoParse
                    ELSE IF t[p3] = "}" THEN Parsed(Obj(acc2), p3 + 1)
                    ELSE IF t[p3] = "," THEN ParseMembers(t, p3 + 1, acc2)
                    ELSE NoParse

\* elements of an array from position p (after "[" or after a ",")
ParseElements(t, p, acc) ==
    LET val == ParseValue(t, p) IN
    IF ~val.ok THEN NoParse
    ELSE
        LET p1 == SkipWs(t, val.pos)
            acc2 == Append(acc, val.val)
        IN
        IF p1 > Len(t) THEN NoParse
        ELSE IF t[p1] = "]" THEN Parsed(Arr(acc2), p1 + 1)
        ELSE IF t[p1] = "," THEN ParseElements(t, p1 + 1, acc2)
        ELSE NoParse

ParseValue(t, p) ==
    LET p1 == SkipWs(t, p) IN
    IF p1 > Len(t) THEN NoParse
    ELSE IF t[p1] = "{" THEN
        LET p2 == SkipWs(t, p1 + 1) IN
        IF p2 <= Len(t) /\ t[p2] = "}" THEN Parsed(Obj(EmptyMap), p2 + 1)
        ELSE ParseMembers(t, p1 + 1, EmptyMap)
    ELSE IF t[p1] = "[" THEN
        LET p2 == SkipWs(t, p1 + 1) IN
        IF p2 <= Len(t) /\ t[p2] = "]" THEN Parsed(Arr(<<>>), p2 + 1)
        ELSE ParseElements(t, p1 + 1, <<>>)
    ELSE IF t[p1] = "\"" THEN ParseChars(t, p1 + 1, <<>>)
    ELSE IF t[p1] \in DigitSet THEN ParseNumber(t, p1)
    ELSE IF p1 + 3 <= Len(t) /\ SubSeq(t, p1, p1 + 3) = <<"n", "u", "l", "l">>
        THEN Parsed(Null, p1 + 4)
    ELSE NoParse

\* json.loads(t): the whole text is one value between optional whitespace;
\* ok = FALSE stands for json.JSONDecodeError
JsonLoads(t) ==
    LET r == ParseValue(t, 1) IN
    IF r.ok /\ SkipWs(t, r.pos) = Len(t) + 1 THEN r ELSE NoParse

-----------------------------------------------------------------------------
(* json.dumps(x, sort_keys=True) *)

RECURSIVE EscapeChars(_)
EscapeChars(s) ==
    IF s = <<>> THEN <<>>
    ELSE (IF Head(s) \in {"\"", "\\"} THEN <<"\\", Head(s)>> ELSE <<Head(s)>>)
         \o EscapeChars(Tail(s))

RECURSIVE NatText(_)
NatText(n) == IF n < 10 THEN <<Digits[n + 1]>>
              ELSE NatText(n \div 10) \o <<Digits[(n % 10) + 1]>>

\* the least key of a non-empty set of key texts
MinKey(S) == CHOOSE x \in S : \A y \in S \ {x} : TextLess(x, y)

RECURSIVE JsonDumps(_)
RECURSIVE DumpMembers(_, _)
RECURSIVE DumpElements(_)

DumpMembers(f, S) ==
    IF S = {} THEN <<>>
    ELSE LET key == MinKey(S) IN
         <<"\"">> \o EscapeChars(key) \o <<"\"", ":", " ">> \o JsonDumps(f[key])
         \o (IF S = {key} THEN <<>> ELSE <<",", " ">> \o DumpMembers(f, S \ {key}))

DumpElements(s) ==
    IF s = <<>> THEN <<>>
    ELSE JsonDumps(Head(s))
         \o (IF Len(s) = 1 THEN <<>> ELSE <<",", " ">> \o DumpElements(Tail(s)))

JsonDumps(x) ==
    CASE x.k = "str" -> <<"\"">> \o EscapeChars(x.v) \o <<"\"">>
      [] x.k = "num" -> NatText(x.v)
      [] x.k = "null" -> <<"n", "u", "l", "l">>
      [] x.k = "obj" -> <<"{">> \o DumpMembers(x.v, DOMAIN x.v) \o <<"}">>
      [] x.k = "arr" -> <<"[">> \o DumpElements(x.v) \o <<"]">>

-----------------------------------------------------------------------------
(* PageByPageExtractor._fix_incomplete_json *)

RECURSIVE StripTrailingCommas(_, _)
\* re.sub(r',(\s*[}\]])', r'\1', json_str): every comma that is followed by
\* optional whitespace and a closing brace or bracket is removed
StripTrailingCommas(t, p) ==
    IF p > Len(t) THEN <<>>
    ELSE
        LET q == SkipWs(t, p + 1) IN
        (IF t[p] = "," /\ q <= Len(t) /\ t[q] \in {"}", "]"} THEN <<>> ELSE <<t[p]>>)
        \o StripTrailingCommas(t, p + 1)

\* mutant: the missing braces are appended before the missing brackets
FixIncompleteJsonBracesFirst(json_str) ==
    LET s == StripTrailingCommas(json_str, 1)
        missing_braces == CountChar(s, "{") - CountChar(s, "}")
        missing_brackets == CountChar(s, "[") - CountChar(s, "]")
    IN
    IF missing_braces > 0 \/ missing_brackets > 0
    THEN s \o Repeat("}", missing_braces) \o Repeat("]", missing_brackets)
    ELSE s

FixIncompleteJson(json_str) ==
    LET s == StripTrailingCommas(json_str, 1)
        missing_braces == CountChar(s, "{") - CountChar(s, "}")
        missing_brackets == CountChar(s, "[") - CountChar(s, "]")
    IN
    IF missing_braces > 0 \/ missing_brackets > 0
    THEN s \o Repeat("]", missing_brackets) \o Repeat("}", missing_braces)
    ELSE s

-----------------------------------------------------------------------------
(* PageByPageExtractor._extract_from_page *)

\* the key "raw_extraction"
RawKey == <<"r", "a", "w", "_", "e", "x", "t", "r", "a", "c", "t", "i", "o", "n">>

\* what the extraction-service call of a page did: it raised, or it returned
\* the text t
Raised == [raised |-> TRUE, text |-> <<>>]
Returned(t) == [raised |-> FALSE, text |-> t]

\* mutant: the repaired text, not the raw response, is wrapped when the
\* repair does not parse either
ExtractFromPageWrapsRepaired(resp) ==
    IF resp.raised
    THEN [success |-> FALSE, data |-> Obj(EmptyMap), confidence |-> 0]
    ELSE
        LET first == JsonLoads(resp.text) IN
        IF first.ok
        THEN [success |-> TRUE, data |-> first.val, confidence |-> 10]
        ELSE
            LET fixed_json == FixIncompleteJson(resp.text)
                second == JsonLoads(fixed_json)
            IN
            IF fixed_json # <<>> /\ second.ok
            THEN [success |-> TRUE, data |-> second.val, confidence |-> 9]
            ELSE [success |-> TRUE,
                  data |-> Obj(Single(RawKey, Str(fixed_json))),
                  confidence |-> 8]

\* mutant: a call that raises is recorded like an answer that cannot be
\* parsed
ExtractFromPageNeverFails(resp) ==
    IF resp.raised
    THEN [success |-> TRUE, data |-> Obj(Single(RawKey, Str(<<>>))), confidence |-> 8]
    ELSE
        LET first == JsonLoads(resp.text) IN
        IF first.ok
        THEN [success |-> TRUE, data |-> first.val, confidence |-> 10]
        ELSE
            LET fixed_json == FixIncompleteJson(resp.text)
                second == JsonLoads(fixed_json)
            IN
            IF fixed_json # <<>> /\ second.ok
            THEN [success |-> TRUE, data |-> second.val, confidence |-> 9]
            ELSE [success |-> TRUE,
                  data |-> Obj(Single(RawKey, Str(resp.text))),
                  confidence |-> 8]

\* confidences are kept in tenths: 10 is 1.0, 9 is 0.9, 8 is 0.8, 0 is 0
ExtractFromPage(resp) ==
    IF resp.raised
    THEN [success |-> FALSE, data |-> Obj(EmptyMap), confidence |-> 0]
    ELSE
        LET first == JsonLoads(resp.text) IN
        IF first.ok
        THEN [success |-> TRUE, data |-> first.val, confidence |-> 10]
        ELSE
            LET fixed_json == FixIncompleteJson(resp.text)
                second == JsonLoads(fixed_json)
            IN
            IF fixed_json # <<>> /\ second.ok
            THEN [success |-> TRUE, data |-> second.val, confidence |-> 9]
            ELSE [success |-> TRUE,
                  data |-> Obj(Single(RawKey, Str(resp.text))),
                  confidence |-> 8]

-----------------------------------------------------------------------------
(* PageByPageExtractor._aggregate_page_results and its helpers *)

Put(f, key, val) == [x \in DOMAIN f \cup {key} |-> IF x = key THEN val ELSE f[x]]

RECURSIVE DeepMerge(_, _)

\* mutant: an array replaces the object kept under the key
DeepMergeKeyArrayReplaces(target, key, value) ==
    IF key \in DOMAIN target /\ IsDict(target[key]) /\ IsDict(value)
        THEN Obj(DeepMerge(target[key].v, value.v))
    ELSE IF key \in DOMAIN target /\ IsList(target[key]) /\ IsList(value)
        THEN Arr(target[key].v \o value.v)
    ELSE IF key \in DOMAIN target /\ IsList(target[key]) /\ IsDict(value)
        THEN Arr(Append(target[key].v, value))
    ELSE value

\* one iteration of the loop of _deep_merge: the value target[key] holds
\* after merging the source value under key (key is a key of source)
DeepMergeKey(target, key, value) ==
    IF key \in DOMAIN target /\ IsDict(target[key]) /\ IsDict(value)
        THEN Obj(DeepMerge(target[key].v, value.v))
    ELSE IF key \in DOMAIN target /\ IsList(target[key]) /\ IsList(value)
        THEN Arr(target[key].v \o value.v)
    ELSE IF key \in DOMAIN target /\ IsList(target[key]) /\ IsDict(value)
        THEN Arr(Append(target[key].v, value))
    ELSE IF key \in DOMAIN target /\ IsDict(target[key]) /\ IsList(value)
        THEN target[key]
    ELSE value

\* _deep_merge(target, source) for two dicts: the dict target has become
DeepMerge(target, source) ==
    [key \in DOMAIN target \cup DOMAIN source |->
        IF key \in DOMAIN source
        THEN DeepMergeKey(target, key, source[key])
        ELSE target[key]]

\* mutant: a simple value replaces the one kept so far ("most recent
\* non-empty value")
MergeSectionMostRecent(agg, section, data) ==
    IF IsDict(data) THEN
        LET target == IF section \in DOMAIN agg THEN agg[section] ELSE Obj(EmptyMap) IN
        IF IsDict(target)
        THEN Put(agg, section, Obj(DeepMerge(target.v, data.v)))
        ELSE agg
    ELSE IF IsList(data) THEN
        LET target == IF section \in DOMAIN agg THEN agg[section] ELSE Arr(<<>>) IN
        IF IsList(target)
        THEN Put(agg, section, Arr(target.v \o data.v))
        ELSE agg
    ELSE IF Truthy(data) THEN Put(agg, section, data)
    ELSE agg

\* the body of the section loop of _aggregate_page_results (lines 212-229)
\* for one section of one page; an exception raised inside is swallowed by
\* the except of line 226 and leaves the accumulator as it was
MergeSection(agg, section, data) ==
    IF IsDict(data) THEN
        LET target == IF section \in DOMAIN agg THEN agg[section] ELSE Obj(EmptyMap) IN
        IF IsDict(target)
        THEN Put(agg, section, Obj(DeepMerge(target.v, data.v)))
        \* target is a list or a scalar: _deep_merge raises TypeError on
        \* its first key and AttributeError (target.get) in its own handler;
        \* with no key in data it does nothing
        ELSE agg
    ELSE IF IsList(data) THEN
        LET target == IF section \in DOMAIN agg THEN agg[section] ELSE Arr(<<>>) IN
        IF IsList(target)
        THEN Put(agg, section, Arr(target.v \o data.v))
        \* a dict or a scalar has no extend: AttributeError
        ELSE agg
    ELSE IF Truthy(data) /\ (section \notin DOMAIN agg \/ ~Truthy(agg[section]))
        THEN Put(agg, section, data)
    ELSE agg

RECURSIVE MergeSections(_, _, _)
\* the section loop over the keys S of the page data
MergeSections(agg, page_data, S) ==
    IF S = {} THEN agg
    ELSE LET section == CHOOSE x \in S : TRUE IN
         MergeSections(MergeSection(agg, section, page_data[section]),
                       page_data, S \ {section})

\* page_data.items() of line 211 raises AttributeError unless page_data is a dict
MergeRaises(page_result) == page_result.success /\ ~IsDict(page_result.extracted_data)

\* one iteration of the page loop (lines 204-229) that does not raise
MergePage(agg, page_result) ==
    IF ~page_result.success THEN agg
    ELSE MergeSections(agg, page_result.extracted_data.v,
                       DOMAIN page_result.extracted_data.v)

\* the key under which _deduplicate_list remembers an item
SeenKey(item) == IF IsDict(item) THEN Str(JsonDumps(item)) ELSE item

RECURSIVE Dedup(_, _)
Dedup(items, seen) ==
    IF items = <<>> THEN <<>>
    ELSE LET key == SeenKey(Head(items)) IN
         IF key \in seen THEN Dedup(Tail(items), seen)
         ELSE <<Head(items)>> \o Dedup(Tail(items), seen \cup {key})

\* mutant: nothing is removed
DeduplicateListKeepsAll(items) == items

RECURSIVE DedupOneDuplicate(_, _)
DedupOneDuplicate(items, seen) ==
    IF items = <<>> THEN <<>>
    ELSE LET key == SeenKey(Head(items)) IN
         IF key \in seen THEN Tail(items)
         ELSE <<Head(items)>> \o DedupOneDuplicate(Tail(items), seen \cup {key})

\* mutant: the loop ends at the first duplicate it drops, the remaining
\* items are kept as they are
DeduplicateListOneDuplicate(items) == DedupOneDuplicate(items, {})

\* _deduplicate_list(items), when it does not raise
DeduplicateList(items) == Dedup(items, {})

\* _deduplicate_list raises TypeError (unhashable type: 'list') when an item
\* is a list
DeduplicateRaises(items) == \E n \in 1..Len(items) : IsList(items[n])

RECURSIVE CleanDict(_)
CleanDict(data) ==
    [key \in {x \in DOMAIN data : Truthy(data[x])} |->
        IF IsDict(data[key]) THEN Obj(CleanDict(data[key].v))
        ELSE IF IsList(data[key]) THEN Arr(DeduplicateList(data[key].v))
        ELSE data[key]]

RECURSIVE CleanDictRaises(_)
CleanDictRaises(data) ==
    \E key \in DOMAIN data :
        /\ Truthy(data[key])
        /\ \/ IsDict(data[key]) /\ CleanDictRaises(data[key].v)
           \/ IsList(data[key]) /\ DeduplicateRaises(data[key].v)

\* _clean_aggregated_data(data), when it does not raise
CleanAggregatedData(data) ==
    [section \in DOMAIN data |->
        IF IsList(data[section]) THEN Arr(DeduplicateList(data[section].v))
        ELSE IF IsDict(data[section]) THEN Obj(CleanDict(data[section].v))
        ELSE data[section]]

CleanRaises(data) ==
    \E section \in DOMAIN data :
        \/ IsList(data[section]) /\ DeduplicateRaises(data[section].v)
        \/ IsDict(data[section]) /\ CleanDictRaises(data[section].v)

RECURSIVE FoldPages(_, _)
\* the accumulator after the page loop over page results none of which raises
FoldPages(agg, results) ==
    IF results = <<>> THEN agg
    ELSE FoldPages(MergePage(agg, Head(results)), Tail(results))

\* The objects json.loads builds for a page are not copied when they are
\* merged: "target[key] = value" (lines 252 and 257) stores the page's own
\* dict or list in the accumulator, and the later in-place merges (lines 240,
\* 243, 246, 252) change it there and in the page result alike.

IsPrefix(p, q) == Len(p) <= Len(q) /\ SubSeq(q, 1, Len(p)) = p

RECURSIVE GetAt(_, _)
\* the value the dict f holds at a path of keys
GetAt(f, path) ==
    IF Len(path) = 1 THEN f[Head(path)]
    ELSE GetAt(f[Head(path)].v, Tail(path))

RECURSIVE SetAt(_, _, _)
\* the dict f with the value at a path of keys replaced
SetAt(f, path, val) ==
    IF Len(path) = 1 THEN [f EXCEPT ![Head(path)] = val]
    ELSE [f EXCEPT ![Head(path)] = Obj(SetAt(f[Head(path)].v, Tail(path), val))]

RECURSIVE Assigned(_, _, _)
\* the paths at which _deep_merge(target, source) executes
\* "target[key] = value" (line 252), target being the dict at prefix
Assigned(target, source, prefix) ==
    UNION {IF key \in DOMAIN target /\ IsDict(target[key]) /\ IsDict(source[key])
               THEN Assigned(target[key].v, source[key].v, Append(prefix, key))
           ELSE IF key \in DOMAIN target /\ IsList(target[key])
                   /\ (IsList(source[key]) \/ IsDict(source[key]))
               THEN {}
           ELSE IF key \in DOMAIN target /\ IsDict(target[key]) /\ IsList(source[key])
               THEN {}
           ELSE {Append(prefix, key)} :
           key \in DOMAIN source}

\* the paths at which merging a page into agg stores a value of the page
\* inside an object of the accumulator (lines 213-217; aggregated[section]
\* itself is a fresh dict or list, lines 215 and 220)
PageAssigned(agg, page_result) ==
    IF ~page_result.success THEN {}
    ELSE LET page_data == page_result.extracted_data.v IN
         UNION {IF ~IsDict(page_data[section]) THEN {}
                ELSE IF section \notin DOMAIN agg
                    THEN Assigned(EmptyMap, page_data[section].v, <<section>>)
                ELSE IF IsDict(agg[section])
                    THEN Assigned(agg[section].v, page_data[section].v, <<section>>)
                ELSE {} :
                section \in DOMAIN page_data}

\* shared: the (page, path) pairs such that the dict or list at that path of
\* the accumulator is the very object the page result holds at that path.
\* Merging page number m into agg replaces the objects at the assigned paths
\* (whatever was shared at or below them is no longer in the accumulator)
\* and shares the dicts and lists of page m stored there; a section that a
\* simple value has taken (line 225) holds no object any more.
SharedAfter(shared, agg, m, page_result) ==
    LET assigned == PageAssigned(agg, page_result)
        merged == MergePage(agg, page_result)
    IN
    {r \in shared :
        /\ ~\E path \in assigned : IsPrefix(path, r.path)
        /\ IsDict(merged[Head(r.path)])}
    \cup {[page |-> m, path |-> path] :
            path \in {q \in assigned :
                        LET value == GetAt(page_result.extracted_data.v, q) IN
                        IsDict(value) \/ IsList(value)}}

RECURSIVE WithShared(_, _, _)
\* the page data, given that it holds at the paths S the objects the
\* accumulator agg holds there
WithShared(page_data, S, agg) ==
    IF S = {} THEN page_data
    ELSE LET path == CHOOSE q \in S : TRUE IN
         WithShared(SetAt(page_data, path, GetAt(agg, path)), S \ {path}, agg)

\* the page results as the in-place merges leave them, for the objects
\* shared with the accumulator agg
SharePages(results, shared, agg) ==
    [n \in 1..Len(results) |->
        LET S == {r.path : r \in {q \in shared : q.page = n}} IN
        IF S = {} THEN results[n]
        ELSE [results[n] EXCEPT
                !.extracted_data = Obj(WithShared(results[n].extracted_data.v, S, agg))]]

ItemsError == "page data has no attribute 'items'"
UnhashableError == "unhashable type: 'list'"

\* _aggregate_page_results(page_results): the exception that escapes it
\* (error, "" when it returns) and the dict it returns
AggregatePageResults(results) ==
    IF \E n \in 1..Len(results) : MergeRaises(results[n])
    THEN [error |-> ItemsError, data |-> EmptyMap]
    ELSE LET agg == FoldPages(EmptyMap, results) IN
         IF CleanRaises(agg)
         THEN [error |-> UnhashableError, data |-> EmptyMap]
         ELSE [error |-> "", data |-> CleanAggregatedData(agg)]

-----------------------------------------------------------------------------
(* DocumentProcessor *)

\* An input file, as the libraries that read it behave on it:
\*   exists, suffix   Path.exists(), Path.suffix
\*   pages            page count of a PDF
\*   render           "fail": rendering the PDF pages (lines 201-237) raises
\*   fallback         "fail": _create_fallback_images raises inside its try
\*   readable         FALSE: opening an image or HTML file raises
\*   img, css         per <img> match / CSS background match of an HTML file,
\*                    in match order: whether the image decodes and saves
\*   text             the text PyPDF2 extracts from each page of a PDF
\*   rendered         render = "fail": the pages saved before rendering raised
DefaultFile ==
    [exists |-> TRUE, suffix |-> ".pdf", pages |-> 0, render |-> "ok",
     fallback |-> "ok", readable |-> TRUE, img |-> <<>>, css |-> <<>>,
     text |-> <<>>, rendered |-> 0]

\* str.lower() on the suffixes the model uses
Lower(suffix) ==
    CASE suffix = ".PDF" -> ".pdf"
      [] suffix = ".Jpg" -> ".jpg"
      [] suffix = ".DOC" -> ".doc"
      [] OTHER -> suffix

PdfSuffixes == {".pdf"}
ImageSuffixes == {".jpg", ".jpeg", ".png", ".bmp", ".tiff"}
HtmlSuffixes == {".html", ".htm"}

Image(page_number, source, is_fallback) ==
    [page_number |-> page_number, source |-> source, fallback |-> is_fallback]

\* page_text[:500]
FallbackTextLimit == 500

\* text[:n]
Slice(text, n) == SubSeq(text, 1, IF Len(text) < n THEN Len(text) ELSE n)

\* the dict of a blank placeholder page (lines 369-377)
FallbackImage(page_number, page_text) ==
    [page_number |-> page_number, source |-> "pdf", fallback |-> TRUE,
     text_content |-> Slice(page_text, FallbackTextLimit)]

\* _create_fallback_images: an exception inside its try gives []
CreateFallbackImages(f) ==
    IF f.fallback = "ok"
    THEN [n \in 1..f.pages |-> FallbackImage(n, f.text)]
    ELSE <<>>

\* _process_pdf: the images it returns. Rendering, the conversion to a PIL
\* image or image.save raising (render = "fail") leads to the except of line
\* 239; a failure of _enhance_image is swallowed there (lines 324-326) and
\* the page stays a rendered page
ProcessPdf(f) ==
    IF f.render = "ok"
    THEN [n \in 1..f.pages |-> Image(n, "pdf", FALSE)]
    ELSE CreateFallbackImages(f)

RECURSIVE ImgPass(_, _, _)
\* the first loop of _extract_base64_images from match n on: a match that
\* decodes becomes an image numbered by its match index, one that raises is
\* skipped
ImgPass(img, n, images) ==
    IF n > Len(img) THEN images
    ELSE ImgPass(img, n + 1,
                 IF img[n] THEN Append(images, Image(n, "base64_embedded", FALSE))
                 ELSE images)

RECURSIVE CssPass(_, _, _)
\* the second loop: a match that decodes is numbered len(images) + 1
CssPass(css, n, images) ==
    IF n > Len(css) THEN images
    ELSE CssPass(css, n + 1,
                 IF css[n]
                 THEN Append(images, Image(Len(images) + 1, "css_background", FALSE))
                 ELSE images)

ExtractBase64Images(f) == CssPass(f.css, 1, ImgPass(f.img, 1, <<>>))

\* a file of temp_images: page_<n>.png, page_<n>_fallback.png,
\* <stem>_img_<n>.<format>, <stem>_css_img_<n>.<format>
TempFile(kind, n) == [kind |-> kind, n |-> n]

\* the files process_document(f) writes into temp_images
TempFiles(f) ==
    IF ~f.exists THEN {}
    ELSE IF Lower(f.suffix) \in PdfSuffixes THEN
        IF f.render = "ok" THEN {TempFile("page", n) : n \in 1..f.pages}
        ELSE {TempFile("page", n) : n \in 1..f.rendered}
             \cup {TempFile("page_fallback", n) : n \in 1..Len(CreateFallbackImages(f))}
    ELSE IF Lower(f.suffix) \in HtmlSuffixes /\ f.readable THEN
        {TempFile("img", n) : n \in {m \in 1..Len(f.img) : f.img[m]}}
        \cup {TempFile("css_img", n) : n \in {m \in 1..Len(f.css) : f.css[m]}}
    ELSE {}

\* the directory after the files have been written (image.save of lines 119,
\* 152, 223 and 367 creates the file or writes over it)
Written(dir, files) == dir (+) SetToBag(files)

\* mutant: the suffix is looked at before the existence of the file
ProcessDocumentSuffixFirst(f) ==
    IF Lower(f.suffix) \notin PdfSuffixes \cup ImageSuffixes \cup HtmlSuffixes
    THEN [error |-> "Unsupported file format", type |-> "", images |-> <<>>]
    ELSE IF ~f.exists
    THEN [error |-> "File not found", type |-> "", images |-> <<>>]
    ELSE IF Lower(f.suffix) \in PdfSuffixes
    THEN [error |-> "", type |-> "pdf", images |-> ProcessPdf(f)]
    ELSE IF Lower(f.suffix) \in ImageSuffixes
    THEN IF f.readable
         THEN [error |-> "", type |-> "image", images |-> <<Image(1, "image", FALSE)>>]
         ELSE [error |-> "cannot identify image file", type |-> "", images |-> <<>>]
    ELSE IF f.readable
         THEN [error |-> "", type |-> "html", images |-> ExtractBase64Images(f)]
         ELSE [error |-> "cannot read file", type |-> "", images |-> <<>>]

\* process_document: error is "" when it returns, else the exception raised
ProcessDocument(f) ==
    IF ~f.exists
    THEN [error |-> "File not found", type |-> "", images |-> <<>>]
    ELSE IF Lower(f.suffix) \in PdfSuffixes
    THEN [error |-> "", type |-> "pdf", images |-> ProcessPdf(f)]
    ELSE IF Lower(f.suffix) \in ImageSuffixes
    THEN IF f.readable
         THEN [error |-> "", type |-> "image", images |-> <<Image(1, "image", FALSE)>>]
         ELSE [error |-> "cannot identify image file", type |-> "", images |-> <<>>]
    ELSE IF Lower(f.suffix) \in HtmlSuffixes
    THEN IF f.readable
         THEN [error |-> "", type |-> "html", images |-> ExtractBase64Images(f)]
         ELSE [error |-> "cannot read file", type |-> "", images |-> <<>>]
    ELSE [error |-> "Unsupported file format", type |-> "", images |-> <<>>]

NoDoc == [error |-> "", type |-> "", images |-> <<>>]

-----------------------------------------------------------------------------
(* Inputs *)

\* sequences of booleans of length n
BoolSeqs(n) == [1..n -> BOOLEAN]

\* a text of n characters, each character named by its position
TextOfLength(n) == [c \in 1..n |-> c]

\* page texts shorter than, as long as and longer than the limit of line 376
PageTexts ==
    {TextOfLength(n) : n \in {0, 1, FallbackTextLimit, FallbackTextLimit + 1}}

PdfFiles ==
    {[DefaultFile EXCEPT !.suffix = s, !.pages = n, !.render = r[1], !.fallback = r[2]] :
        s \in {".pdf", ".PDF"}, n \in 0..MaxPages,
        r \in {<<"ok", "ok">>, <<"fail", "ok">>, <<"fail", "fail">>}}
    \cup {[DefaultFile EXCEPT !.pages = n, !.render = "fail", !.text = t] :
            n \in 1..MaxPages, t \in PageTexts}
    \cup {[DefaultFile EXCEPT !.pages = n, !.render = "fail", !.rendered = n - 1] :
            n \in 2..MaxPages}

ImageFiles ==
    {[DefaultFile EXCEPT !.suffix = s, !.readable = b] :
        s \in ImageSuffixes \cup {".Jpg"}, b \in BOOLEAN}

HtmlFiles ==
    {[DefaultFile EXCEPT !.suffix = s, !.img = a, !.css = c] :
        s \in HtmlSuffixes,
        a \in UNION {BoolSeqs(n) : n \in 0..MaxPages},
        c \in UNION {BoolSeqs(n) : n \in 0..MaxPages}}
    \cup {[DefaultFile EXCEPT !.suffix = ".html", !.readable = FALSE]}

OtherFiles ==
    {[DefaultFile EXCEPT !.suffix = s] : s \in {".txt", ".tif", ".DOC", ""}}
    \cup {[DefaultFile EXCEPT !.suffix = s, !.exists = FALSE] : s \in {".pdf", ".txt"}}

Files ==
    {f \in PdfFiles \cup ImageFiles \cup HtmlFiles \cup OtherFiles :
        Len(f.img) + Len(f.css) <= MaxPages}

\* Texts the extraction service answers with: complete JSON objects, JSON
\* that is no object, and output cut off before its end
TextObject == <<"{", "\"", "a", "\"", ":", " ", "\"", "A", "\"", "}">>
TextArray == <<"[", "1", "]">>
TextNested == <<"{", "\"", "a", "\"", ":", " ", "[", "[", "1", "]", "]", "}">>
TextCut == <<"{", "\"", "a", "\"", ":", " ", "[", "1", ",", " ", "2">>
TextCutComma == <<"{", "\"", "a", "\"", ":", " ", "[", "1", ",">>

Texts == {TextObject, TextArray, TextNested, TextCut, TextCutComma}

\* what one call of the extraction service can do
Responses == {Raised} \cup {Returned(t) : t \in Texts}

-----------------------------------------------------------------------------
(* Calls followed on their own: the state before any of them is made *)

\* no call of _fix_incomplete_json
NoFixer == [called |-> FALSE, json_str |-> <<>>, fixed |-> <<>>]

\* no call of _deduplicate_list
NoDedup == [items |-> <<>>, outputs |-> <<>>]

\* no program is running
NoSession ==
    [kind |-> "", pc |-> "idle", configured |-> FALSE, extracted |-> 0,
     cleaned |-> FALSE]

\* no BatchProcessor
NoBatch ==
    [pc |-> "idle", folder |-> <<>>, documents |-> <<>>, results |-> <<>>,
     processed_count |-> 0, failed_count |-> 0, saved |-> FALSE,
     total_documents |-> 0, processed_successfully |-> 0, failed |-> 0]


-----------------------------------------------------------------------------
(* PageByPageExtractor.extract_page_by_page *)

NoResult ==
    [returned |-> FALSE, success |-> FALSE, error |-> "", method |-> "",
     total_pages |-> 0, page_results |-> <<>>, aggregated_data |-> EmptyMap,
     extracted_data |-> Null]

\* field_coverage of a comparison that has not compared anything (line 286)
NoCoverage == [x \in {} |-> 0]

NoComparison ==
    [called |-> FALSE, standard_result |-> NoResult, page_by_page_result |-> NoResult,
     error |-> "", standard_success |-> FALSE, page_by_page_success |-> FALSE,
     field_coverage |-> NoCoverage, recommendations |-> <<>>]

\* no call of _process_pdf
NoPdf ==
    [pc |-> "idle", file |-> DefaultFile, text_fails |-> FALSE, text_content |-> <<>>,
     total_pages |-> 0, image_data |-> <<>>, images |-> <<>>]

OthersIdle ==
    /\ fixer = NoFixer /\ dedup = NoDedup /\ session = NoSession /\ batch = NoBatch
    /\ extractor_result = NoResult
    /\ comparison = NoComparison
    /\ pdf = NoPdf

\* the dict of lines 96-101
Failure(error) == [NoResult EXCEPT !.returned = TRUE, !.error = error]

\* the dict of lines 78-93
PageByPageResult(results, data) ==
    [NoResult EXCEPT !.returned = TRUE, !.success = TRUE, !.method = "page_by_page",
                     !.total_pages = Len(results), !.page_results = results,
                     !.aggregated_data = data]

\* the dict DataExtractor._format_output builds
TextOnlyResult(data) ==
    [NoResult EXCEPT !.returned = TRUE, !.success = TRUE, !.method = "text_only",
                     !.extracted_data = data]

\* DataExtractor._format_output: the parsed response, or the raw response
\* under "raw_extraction"
FormatOutput(text) ==
    LET r == JsonLoads(text) IN
    TextOnlyResult(IF r.ok THEN r.val ELSE Obj(Single(RawKey, Str(text))))

PageCall(page_number) == [kind |-> "page", page_number |-> page_number]
DocumentCall == [kind |-> "document", page_number |-> 0]

PageResult(page_number, page_data) ==
    [page_number |-> page_number, success |-> page_data.success,
     extracted_data |-> page_data.data, confidence |-> page_data.confidence]

\* lines 42-47: process_document, then the choice between the page loop, the
\* fallback and the except of line 95
Process ==
    /\ pc = "start"
    /\ LET doc == ProcessDocument(file) IN
       /\ processed_doc' = doc
       /\ temp_dir' = Written(temp_dir, TempFiles(file))
       /\ IF doc.error # ""
          THEN pc' = "done" /\ result' = Failure(doc.error)
          ELSE /\ pc' = IF doc.images = <<>> THEN "fallback" ELSE "extract"
               /\ UNCHANGED result
    /\ UNCHANGED <<others, file, openai_key, use_azure, i, raw, calls, page_results,
                   aggregated, j>>

\* mutant: a call that raises ends the page loop
ExtractPageStopsOnFailure ==
    /\ pc = "extract"
    /\ i < Len(processed_doc.images)
    /\ \E resp \in Responses :
        LET page_num == processed_doc.images[i + 1].page_number IN
        /\ calls' = Append(calls, PageCall(page_num))
        /\ raw' = Append(raw, resp)
        /\ page_results' = Append(page_results, PageResult(page_num, ExtractFromPage(resp)))
        /\ pc' = IF resp.raised \/ i + 1 = Len(processed_doc.images)
                 THEN "aggregate" ELSE "extract"
    /\ i' = i + 1
    /\ UNCHANGED <<others, temp_dir, file, openai_key, use_azure, processed_doc, aggregated, j, result>>

\* one iteration of the loop of lines 55-73: the service call of the next
\* page of processed_doc['images'] and the classification of its answer
ExtractPage ==
    /\ pc = "extract"
    /\ i < Len(processed_doc.images)
    /\ \E resp \in Responses :
        LET page_num == processed_doc.images[i + 1].page_number IN
        /\ calls' = Append(calls, PageCall(page_num))
        /\ raw' = Append(raw, resp)
        /\ page_results' = Append(page_results, PageResult(page_num, ExtractFromPage(resp)))
    /\ i' = i + 1
    /\ pc' = IF i' = Len(processed_doc.images) THEN "aggregate" ELSE "extract"
    /\ UNCHANGED <<others, temp_dir, file, openai_key, use_azure, processed_doc, aggregated, j, result>>

\* the page results as _extract_from_page returned them (lines 67-73)
Extracted ==
    [n \in 1..Len(raw) |-> PageResult(calls[n].page_number, ExtractFromPage(raw[n]))]

RECURSIVE SharedUpTo(_)
\* the objects the accumulator shares with the page results after the
\* first n iterations of the page loop
SharedUpTo(n) ==
    IF n = 0 THEN {}
    ELSE SharedAfter(SharedUpTo(n - 1),
                     FoldPages(EmptyMap, SubSeq(Extracted, 1, n - 1)),
                     n, Extracted[n])

\* mutant: the accumulator is set up anew inside the page loop
AggregatePageFreshAccumulator ==
    /\ pc = "aggregate"
    /\ j < Len(page_results)
    /\ j' = j + 1
    /\ IF MergeRaises(page_results[j + 1])
       THEN /\ pc' = "done"
            /\ result' = Failure(ItemsError)
            /\ UNCHANGED aggregated
       ELSE /\ aggregated' = MergePage(EmptyMap, page_results[j + 1])
            /\ pc' = IF j' = Len(page_results) THEN "clean" ELSE "aggregate"
            /\ UNCHANGED result
    /\ UNCHANGED <<others, temp_dir, file, openai_key, use_azure, processed_doc, i, raw, calls, page_results>>

\* one iteration of the page loop of _aggregate_page_results (lines 204-229);
\* an exception of line 211 reaches the except of line 95
AggregatePage ==
    /\ pc = "aggregate"
    /\ j < Len(page_results)
    /\ j' = j + 1
    /\ IF MergeRaises(page_results[j + 1])
       THEN /\ pc' = "done"
            /\ result' = Failure(ItemsError)
            /\ UNCHANGED aggregated
            /\ UNCHANGED page_results
       ELSE /\ aggregated' = MergePage(aggregated, page_results[j + 1])
            /\ page_results' = SharePages(page_results, SharedUpTo(j + 1), aggregated')
            /\ pc' = IF j' = Len(page_results) THEN "clean" ELSE "aggregate"
            /\ UNCHANGED result
    /\ UNCHANGED <<others, temp_dir, file, openai_key, use_azure, processed_doc, i, raw, calls>>

\* line 232 and the return of lines 78-93; a TypeError of _deduplicate_list
\* reaches the except of line 95
Clean ==
    /\ pc = "clean"
    /\ pc' = "done"
    /\ result' = IF CleanRaises(aggregated)
                 THEN Failure(UnhashableError)
                 ELSE PageByPageResult(page_results, CleanAggregatedData(aggregated))
    /\ UNCHANGED <<others, temp_dir, file, openai_key, use_azure, processed_doc, i, raw, calls,
                   page_results, aggregated, j>>

\* _fallback_extraction: DataExtractor(...) builds a PageByPageExtractor with
\* use_azure=False, whose LLMConfig raises ValueError without OPENAI_API_KEY;
\* extract_from_file processes the document again (data_extractor.py line
\* 79, with a DocumentProcessor of its own on the same temp_images), then
\* makes one whole-document call and returns
\* _format_output of the answer, or its own failure dict when the call raises
Fallback ==
    /\ pc = "fallback"
    /\ pc' = "done"
    /\ IF ~openai_key
       THEN /\ result' = Failure("OpenAI API key is required")
            /\ UNCHANGED <<calls, temp_dir>>
       ELSE /\ calls' = Append(calls, DocumentCall)
            /\ temp_dir' = Written(temp_dir, TempFiles(file))
            /\ \E resp \in Responses :
                result' = IF resp.raised THEN Failure("service call failed")
                          ELSE FormatOutput(resp.text)
    /\ UNCHANGED <<others, file, openai_key, use_azure, processed_doc, i, raw, page_results,
                   aggregated, j>>

\* the state after PageByPageExtractor(use_azure=...) has been constructed
\* (LLMConfig raises without the credentials of the chosen provider) and
\* extract_page_by_page has been called on a file
Init ==
    /\ file \in Files
    /\ use_azure \in BOOLEAN
    /\ openai_key \in BOOLEAN
    /\ ~use_azure => openai_key
    /\ pc = "start"
    /\ processed_doc = NoDoc
    /\ i = 0
    /\ raw = <<>>
    /\ calls = <<>>
    /\ page_results = <<>>
    /\ aggregated = EmptyMap
    /\ j = 0
    /\ result = NoResult
    /\ temp_dir = EmptyBag
    /\ OthersIdle

Next == Process \/ ExtractPage \/ AggregatePage \/ Clean \/ Fallback

Spec == Init /\ [][Next]_vars

-----------------------------------------------------------------------------
(* DataExtractor.extract_page_by_page: the call of the page-by-page        *)
(* extractor through the DataExtractor that owns it                        *)

\* the keys of the dict a result is: the dict of page_by_page_extractor.py
\* lines 78-93, the dict of _format_output (data_extractor.py lines 168-184)
\* and the failure dicts
ResultKeys(r) ==
    IF ~r.success THEN {"success", "error", "file_path", "document_type"}
    ELSE IF r.method = "page_by_page"
    THEN {"success", "document_type", "file_path", "total_pages", "page_results",
          "aggregated_data", "metadata"}
    ELSE {"success", "document_type", "file_path", "extracted_data", "metadata"}

\* data_extractor.py lines 218-240: on success=True the summary reads
\* result['total_pages'] and result["page_results"]; a missing key raises
\* KeyError and the except of line 234 returns a failure dict with str(e)
DataExtractorResult(r) ==
    IF r.success /\ ~({"total_pages", "page_results"} \subseteq ResultKeys(r))
    THEN Failure("'total_pages'")
    ELSE r

DataExtractorExtractPageByPage ==
    /\ pc = "done"
    /\ ~extractor_result.returned
    /\ extractor_result' = DataExtractorResult(result)
    /\ UNCHANGED <<pipeline, comparison, pdf, temp_dir, fixer, dedup, session, batch>>

NextDataExtractor == Next \/ DataExtractorExtractPageByPage

SpecDataExtractor == Init /\ [][NextDataExtractor]_vars

-----------------------------------------------------------------------------
(* The aggregation on its own: the states extract_page_by_page is in when  *)
(* the page loop over a rendered PDF has ended, for page data drawn from   *)
(* families of JSON objects                                                *)

\* longest array of a page
MaxLen == 2

KeyA == <<"a">>
KeyB == <<"b">>
KeyX == <<"x">>
TextA == <<"A">>
TextB == <<"B">>

Ok(data) == [success |-> TRUE, data |-> data, confidence |-> 10]
FailedPage == ExtractFromPage(Raised)

\* objects with a scalar (or nothing) under "a" and an object (or nothing)
\* under "b"
ScalarValues == {Str(<<>>), Str(TextA), Str(TextB), Num(0), Num(1), Null}
ScalarPages ==
    {Ok(Obj(f)) : f \in
        {EmptyMap, Single(KeyB, Obj(Single(KeyX, Str(TextA))))}
        \cup {Single(KeyA, x) : x \in ScalarValues}
        \cup {Put(Single(KeyA, x), KeyB, Obj(Single(KeyX, Str(TextA)))) : x \in ScalarValues}}

\* objects with an array of numbers under "a"
NumberArrays == UNION {[1..n -> {Num(1), Num(2)}] : n \in 0..MaxLen}
ArrayPages == {Ok(Obj(Single(KeyA, Arr(s)))) : s \in NumberArrays}

\* objects with a scalar, an object or an array under "a"
NestedValues ==
    {Str(<<>>), Str(TextA), Num(1),
     Obj(EmptyMap), Obj(Single(KeyX, Str(<<>>))), Obj(Single(KeyX, Str(TextA))),
     Obj(Single(KeyX, Str(TextB))), Obj(Single(KeyX, Obj(Single(KeyB, Str(TextA))))),
     Arr(<<>>), Arr(<<Str(TextA)>>), Arr(<<Obj(Single(KeyX, Str(TextA)))>>),
     Arr(<<Obj(Single(KeyX, Arr(<<Num(1), Num(1)>>)))>>)}
NestedPages == {Ok(Obj(Single(KeyA, x))) : x \in NestedValues}

\* objects with an object under "a" that holds a scalar, an array or an
\* object under "x"
DeepValues ==
    {Null, Str(<<>>), Str(TextA), Str(TextB), Arr(<<>>), Arr(<<Str(TextA)>>),
     Obj(EmptyMap), Obj(Single(KeyB, Str(TextA)))}
DeepPages == {Ok(Obj(Single(KeyA, Obj(Single(KeyX, x))))) : x \in DeepValues}

\* objects with an object or an array under "a", and under "b" an object
\* that holds an object or an array under "x" and a string under "b"
MixedValues == {Obj(Single(KeyX, Str(TextA))), Arr(<<Str(TextA)>>)}
MixedPages ==
    {Ok(Obj(Put(Single(KeyA, u), KeyB, Obj(Put(Single(KeyX, v), KeyB, Str(w)))))) :
        u \in MixedValues, v \in MixedValues, w \in {TextA, TextB}}

PageFamilies == {ScalarPages, ArrayPages, NestedPages, DeepPages, MixedPages}

\* a PDF of n pages that renders
RenderedPdf(n) == [DefaultFile EXCEPT !.pages = n]

\* the text json.loads turns into the page data
ResponseOf(page_data) ==
    IF page_data.success THEN Returned(JsonDumps(page_data.data)) ELSE Raised

InitAggregate ==
    /\ use_azure = FALSE
    /\ openai_key = TRUE
    /\ pc = "aggregate"
    /\ \E n \in 1..MaxPages : \E family \in PageFamilies :
        \E pages \in [1..n -> family \cup {FailedPage}] :
            /\ file = RenderedPdf(n)
            /\ processed_doc = ProcessDocument(RenderedPdf(n))
            /\ i = n
            /\ raw = [m \in 1..n |-> ResponseOf(pages[m])]
            /\ calls = [m \in 1..n |-> PageCall(m)]
            /\ page_results = [m \in 1..n |-> PageResult(m, pages[m])]
    /\ aggregated = EmptyMap
    /\ j = 0
    /\ result = NoResult
    /\ temp_dir = SetToBag(TempFiles(file))
    /\ OthersIdle

NextAggregate == AggregatePage \/ Clean

SpecAggregate == InitAggregate /\ [][NextAggregate]_vars

-----------------------------------------------------------------------------
(* _fix_incomplete_json on its own, for texts of every shape: whole JSON,  *)
(* JSON cut off before its end, and text that is no JSON at all            *)

\* longest text drawn from FixerAlphabet
MaxText == 4

FixerAlphabet == {"{", "}", "[", "]", ",", "\"", "1", " "}

ShortTexts == UNION {[1..n -> FixerAlphabet] : n \in 0..MaxText}

\* {"a": "["}
TextBracketInString == <<"{", "\"", "a", "\"", ":", " ", "\"", "[", "\"", "}">>
\* {"a": ",}"}
TextCommaInString == <<"{", "\"", "a", "\"", ":", " ", "\"", ",", "}", "\"", "}">>
\* {"a": [1, ], }
TextTrailingCommas ==
    <<"{", "\"", "a", "\"", ":", " ", "[", "1", ",", " ", "]", ",", " ", "}">>

FixerTexts ==
    ShortTexts \cup Texts
    \cup {TextBracketInString, TextCommaInString, TextTrailingCommas}

\* extract_page_by_page is not running
PipelineIdle ==
    /\ file = DefaultFile
    /\ use_azure = FALSE
    /\ openai_key = TRUE
    /\ pc = "idle"
    /\ processed_doc = NoDoc
    /\ i = 0
    /\ raw = <<>>
    /\ calls = <<>>
    /\ page_results = <<>>
    /\ aggregated = EmptyMap
    /\ j = 0
    /\ result = NoResult

\* no program is running and temp_images is empty
RestIdle ==
    /\ temp_dir = EmptyBag /\ session = NoSession /\ batch = NoBatch
    /\ extractor_result = NoResult
    /\ comparison = NoComparison
    /\ pdf = NoPdf

InitFix ==
    /\ PipelineIdle
    /\ \E t \in FixerTexts : fixer = [NoFixer EXCEPT !.json_str = t]
    /\ dedup = NoDedup
    /\ RestIdle

\* self._fix_incomplete_json(json_str)
FixJson ==
    /\ ~fixer.called
    /\ fixer' = [fixer EXCEPT !.called = TRUE, !.fixed = FixIncompleteJson(fixer.json_str)]
    /\ UNCHANGED <<pipeline, extractor_result, comparison, pdf, temp_dir, dedup, session, batch>>

NextFix == FixJson

SpecFix == InitFix /\ [][NextFix]_vars

-----------------------------------------------------------------------------
(* _deduplicate_list on its own, applied to an array and then to its own   *)
(* results                                                                 *)

\* longest array given to _deduplicate_list
MaxItems == 3

\* number of successive applications
MaxRuns == 2

\* scalars, objects, and the string json.dumps gives for one of the objects
DedupElements ==
    {Num(1), Num(2), Null, Str(<<>>), Str(TextA),
     Obj(EmptyMap), Obj(Single(KeyX, Str(TextA))), Obj(Single(KeyX, Str(TextB))),
     Str(JsonDumps(Obj(Single(KeyX, Str(TextA)))))}

DedupArrays == UNION {[1..n -> DedupElements] : n \in 0..MaxItems}

InitDedup ==
    /\ PipelineIdle
    /\ fixer = NoFixer
    /\ RestIdle
    /\ \E s \in DedupArrays : dedup = [NoDedup EXCEPT !.items = s]

\* self._deduplicate_list(...) on the argument, then on the latest result
Deduplicate ==
    /\ Len(dedup.outputs) < MaxRuns
    /\ LET arg == IF dedup.outputs = <<>> THEN dedup.items
                  ELSE dedup.outputs[Len(dedup.outputs)]
       IN dedup' = [dedup EXCEPT !.outputs = Append(@, DeduplicateList(arg))]
    /\ UNCHANGED <<pipeline, extractor_result, comparison, pdf, temp_dir, fixer, session, batch>>

NextDedup == Deduplicate

SpecDedup == InitDedup /\ [][NextDedup]_vars

-----------------------------------------------------------------------------
(* The command-line programs: main.py, batch_processor.py, quick_batch.py  *)
(* and demo_generic.py, from their start to their end                      *)

\* the programs; main.py, batch_processor.py and quick_batch.py build their
\* DataExtractor with the keyword use_azure, demo_generic.py does not
Programs == {"main", "batch", "quick", "demo"}
PassesUseAzure == {"main", "batch", "quick"}

\* DataExtractor.__init__ takes api_key, model_name, use_vision and
\* extraction_method: a call with any other keyword raises TypeError
InitKeywords == {"api_key", "model_name", "use_vision", "extraction_method"}

\* the keywords of the DataExtractor(...) call of each program
ConstructorCall(kind) ==
    IF kind \in PassesUseAzure
    THEN {"api_key", "extraction_method", "use_azure"}
    ELSE {"api_key", "extraction_method"}

\* len(test_cases) of demo_generic.py
DemoTestCases == 3

InitSession ==
    /\ file \in Files
    /\ use_azure \in BOOLEAN
    /\ openai_key \in BOOLEAN
    /\ pc = "idle"
    /\ processed_doc = NoDoc
    /\ i = 0
    /\ raw = <<>>
    /\ calls = <<>>
    /\ page_results = <<>>
    /\ aggregated = EmptyMap
    /\ j = 0
    /\ result = NoResult
    /\ temp_dir = EmptyBag
    /\ fixer = NoFixer
    /\ dedup = NoDedup
    /\ extractor_result = NoResult
    /\ comparison = NoComparison
    /\ pdf = NoPdf
    /\ batch = NoBatch
    /\ \E kind \in Programs : \E configured \in BOOLEAN :
        /\ ~use_azure => configured = openai_key
        /\ kind = "demo" => ~use_azure
        /\ session = [NoSession EXCEPT !.kind = kind, !.pc = "start",
                                       !.configured = configured]

\* the start of a program up to its DataExtractor(...) call: LLMConfig raises
\* ValueError without the credentials of the chosen provider, main.py
\* returns when the document does not exist, demo_generic.py returns without
\* OPENAI_API_KEY; none of them has an extractor to clean up then
SessionStart ==
    /\ session.pc = "start"
    /\ LET stops ==
            \/ ~session.configured
            \/ session.kind = "main" /\ ~file.exists
       IN session' = [session EXCEPT !.pc = IF stops THEN "ended" ELSE "construct"]
    /\ UNCHANGED <<pipeline, extractor_result, comparison, pdf, temp_dir, fixer, dedup, batch>>

\* the DataExtractor(...) call. A keyword __init__ does not take raises
\* TypeError before any statement of __init__ runs: main.py and
\* quick_batch.py end with the exception, batch_processor.py catches it and
\* its finally finds no processor to clean up. Otherwise __init__ runs,
\* DocumentProcessor() makes temp_images, and the program goes on.
SessionConstruct ==
    /\ session.pc = "construct"
    /\ session' = [session EXCEPT
            !.pc = IF ConstructorCall(session.kind) \subseteq InitKeywords
                   THEN "extract" ELSE "ended"]
    /\ UNCHANGED <<pipeline, extractor_result, comparison, pdf, temp_dir, fixer, dedup, batch>>

\* extractor.extract_from_file(file_path, ...) inside the try of the
\* program's loop: process_document writes its temp files; every exception
\* is caught by extract_from_file or by the loop
SessionExtract ==
    /\ session.pc = "extract"
    /\ temp_dir' = Written(temp_dir, TempFiles(file))
    /\ session' = [session EXCEPT
            !.extracted = @ + 1,
            !.pc = IF session.extracted + 1 = DemoTestCases THEN "cleanup" ELSE "extract"]
    /\ UNCHANGED <<pipeline, extractor_result, comparison, pdf, fixer, dedup, batch>>

\* extractor.cleanup(): cleanup_temp_files unlinks every file of temp_images
\* and removes the directory
SessionCleanup ==
    /\ session.pc = "cleanup"
    /\ temp_dir' = EmptyBag
    /\ session' = [session EXCEPT !.pc = "ended", !.cleaned = TRUE]
    /\ UNCHANGED <<pipeline, extractor_result, comparison, pdf, fixer, dedup, batch>>

NextSession == SessionStart \/ SessionConstruct \/ SessionExtract \/ SessionCleanup

SpecSession == InitSession /\ [][NextSession]_vars

-----------------------------------------------------------------------------
(* BatchProcessor.process_all, from the fields __init__ sets (lines 20-22) *)

\* largest number of entries of the data folder
MaxDocs == 3

\* BatchProcessor.supported_formats
SupportedFormats == {".pdf", ".jpg", ".jpeg", ".png", ".bmp", ".tiff", ".html", ".htm"}

\* entries of the data folder: documents that can be processed, one that
\* cannot be opened, and a file find_documents passes over
BatchFiles ==
    {[DefaultFile EXCEPT !.pages = 1],
     [DefaultFile EXCEPT !.suffix = ".PDF", !.pages = 2, !.render = "fail"],
     [DefaultFile EXCEPT !.suffix = ".html", !.img = <<TRUE>>],
     [DefaultFile EXCEPT !.suffix = ".jpg", !.readable = FALSE],
     [DefaultFile EXCEPT !.suffix = ".txt"]}

\* find_documents: the files of the folder with a supported suffix, in the
\* order rglob yields them
IsSupported(f) == Lower(f.suffix) \in SupportedFormats
FindDocuments(folder) == SelectSeq(folder, IsSupported)

InitBatch ==
    /\ PipelineIdle
    /\ temp_dir = EmptyBag
    /\ fixer = NoFixer
    /\ dedup = NoDedup
    /\ extractor_result = NoResult
    /\ comparison = NoComparison
    /\ pdf = NoPdf
    /\ session = NoSession
    /\ \E n \in 0..MaxDocs : \E folder \in [1..n -> BatchFiles] :
        batch = [NoBatch EXCEPT !.pc = "start", !.folder = folder]

\* lines 143-150: find_documents, and the return when nothing was found
BatchFind ==
    /\ batch.pc = "start"
    /\ LET documents == FindDocuments(batch.folder) IN
       batch' = [batch EXCEPT !.documents = documents,
                              !.pc = IF documents = <<>> THEN "done" ELSE "loop"]
    /\ UNCHANGED <<pipeline, extractor_result, comparison, pdf, temp_dir, fixer, dedup, session>>

\* line 80: the documents process_document also extracts page by page
PageByPageToo(f) == Lower(f.suffix) \in {".pdf", ".html", ".htm"}

\* mutant: a failed document is recorded in results but not counted
BatchProcessNextFailureUncounted ==
    /\ batch.pc = "loop"
    /\ LET doc_path == batch.documents[Len(batch.results) + 1] IN
       /\ \E extracted, written, success \in BOOLEAN :
            /\ ProcessDocument(doc_path).error # "" => ~extracted
            /\ written => extracted
            /\ success => written
            /\ written /\ ~PageByPageToo(doc_path) => success
            /\ temp_dir' =
                IF written /\ PageByPageToo(doc_path)
                THEN Written(Written(temp_dir, TempFiles(doc_path)), TempFiles(doc_path))
                ELSE Written(temp_dir, TempFiles(doc_path))
            /\ batch' = [batch EXCEPT
                    !.results = Append(@, [success |-> success]),
                    !.processed_count = IF success THEN @ + 1 ELSE @,
                    !.pc = IF Len(batch.results) + 1 = Len(batch.documents)
                           THEN "save" ELSE "loop"]
    /\ UNCHANGED <<pipeline, extractor_result, comparison, pdf, fixer, dedup, session>>

\* one iteration of the loop of lines 153-164: process_document (lines
\* 60-119) returns success=True when extract_from_file succeeded (extracted)
\* and the outputs were written, success=False when it failed or anything
\* raised; once the natural output is written, a PDF or HTML document is
\* processed a second time by extract_page_by_page (line 81); the result is
\* appended and counted
BatchProcessNext ==
    /\ batch.pc = "loop"
    /\ LET doc_path == batch.documents[Len(batch.results) + 1] IN
       /\ \E extracted, written, success \in BOOLEAN :
            /\ ProcessDocument(doc_path).error # "" => ~extracted
            /\ written => extracted
            /\ success => written
            /\ written /\ ~PageByPageToo(doc_path) => success
            /\ temp_dir' =
                IF written /\ PageByPageToo(doc_path)
                THEN Written(Written(temp_dir, TempFiles(doc_path)), TempFiles(doc_path))
                ELSE Written(temp_dir, TempFiles(doc_path))
            /\ batch' = [batch EXCEPT
                    !.results = Append(@, [success |-> success]),
                    !.processed_count = IF success THEN @ + 1 ELSE @,
                    !.failed_count = IF success THEN @ ELSE @ + 1,
                    !.pc = IF Len(batch.results) + 1 = Len(batch.documents)
                           THEN "save" ELSE "loop"]
    /\ UNCHANGED <<pipeline, extractor_result, comparison, pdf, fixer, dedup, session>>

\* lines 167-172: _save_batch_results writes batch_info, unless writing
\* batch_processing_results.json raises
BatchSave ==
    /\ batch.pc = "save"
    /\ \E written \in BOOLEAN :
        batch' = IF written
                 THEN [batch EXCEPT !.pc = "done", !.saved = TRUE,
                                    !.total_documents = Len(batch.results),
                                    !.processed_successfully = batch.processed_count,
                                    !.failed = batch.failed_count]
                 ELSE [batch EXCEPT !.pc = "done"]
    /\ UNCHANGED <<pipeline, extractor_result, comparison, pdf, temp_dir, fixer, dedup, session>>

NextBatch == BatchFind \/ BatchProcessNext \/ BatchSave

SpecBatch == InitBatch /\ [][NextBatch]_vars

-----------------------------------------------------------------------------
(* DataExtractor._compare_extraction_results on its own, for a standard    *)
(* result and a page-by-page result of every shape                         *)

RECURSIVE GetAllFields(_, _)
RECURSIVE FieldsOfKeys(_, _, _)

\* the loop of _get_all_fields over the keys S of data (lines 323-331); the
\* keys are taken in sorted order, the list is used for its length and as a
\* set only
FieldsOfKeys(data, prefix, S) ==
    IF S = {} THEN <<>>
    ELSE LET key == MinKey(S)
             field_name == IF prefix # <<>> THEN prefix \o <<".">> \o key ELSE key
             value == data[key]
         IN <<field_name>>
            \o (IF IsDict(value) THEN GetAllFields(value.v, field_name)
                ELSE IF IsList(value) /\ value.v # <<>> /\ IsDict(value.v[1])
                THEN GetAllFields(value.v[1].v, field_name \o <<"[", "0", "]">>)
                ELSE <<>>)
            \o FieldsOfKeys(data, prefix, S \ {key})

\* _get_all_fields(data, prefix) for a dict data
GetAllFields(data, prefix) == FieldsOfKeys(data, prefix, DOMAIN data)

\* the elements of a list, as set(...) gives them
SetOf(fields) == {fields[n] : n \in 1..Len(fields)}

\* result.get(key, {}) for the data keys of a result
GetData(r, key) ==
    IF key \notin ResultKeys(r) THEN Obj(EmptyMap)
    ELSE IF key = "extracted_data" THEN r.extracted_data
    ELSE Obj(r.aggregated_data)

\* _compare_extraction_results(standard_result, page_by_page_result): the
\* comparison it returns, or the AttributeError of data.items() (line 323)
\* when the standard data is not a dict
CompareExtractionResults(standard_result, page_by_page_result) ==
    LET started ==
            [NoComparison EXCEPT
                !.called = TRUE,
                !.standard_result = standard_result,
                !.page_by_page_result = page_by_page_result,
                !.standard_success = standard_result.success,
                !.page_by_page_success = page_by_page_result.success]
        standard_data == GetData(standard_result, "extracted_data")
        page_by_page_data == GetData(page_by_page_result, "aggregated_data")
    IN
    IF ~standard_result.success \/ ~page_by_page_result.success
    THEN [started EXCEPT !.recommendations = <<"One or both extraction methods failed">>]
    ELSE IF ~IsDict(standard_data)
    THEN [started EXCEPT !.error = "object has no attribute 'items'"]
    ELSE LET standard_fields == GetAllFields(standard_data.v, <<>>)
             page_by_page_fields == GetAllFields(page_by_page_data.v, <<>>)
             total_pages == IF "total_pages" \in ResultKeys(page_by_page_result)
                            THEN page_by_page_result.total_pages ELSE 0
         IN [started EXCEPT
                !.field_coverage =
                    [standard_fields |-> Len(standard_fields),
                     page_by_page_fields |-> Len(page_by_page_fields),
                     common_fields |->
                        Cardinality(SetOf(standard_fields) \cap SetOf(page_by_page_fields)),
                     standard_only |-> SetOf(standard_fields) \ SetOf(page_by_page_fields),
                     page_by_page_only |->
                        SetOf(page_by_page_fields) \ SetOf(standard_fields)],
                !.recommendations =
                    (IF Len(page_by_page_fields) > Len(standard_fields)
                     THEN <<"Page-by-page extraction found more fields">> ELSE <<>>)
                    \o (IF total_pages > 1
                        THEN <<"Multi-page document detected - page-by-page extraction recommended">>
                        ELSE <<>>)]

KeyDotted == <<"a", ".", "x">>

\* the data of a result: objects with scalars, objects and arrays under their
\* keys, one with a key that holds a dot, and an array
CompareMaps ==
    {EmptyMap,
     Single(KeyA, Str(TextA)),
     Single(KeyB, Str(TextB)),
     Single(KeyA, Obj(Single(KeyX, Str(TextA)))),
     Put(Single(KeyA, Obj(Single(KeyX, Str(TextA)))), KeyDotted, Str(TextB)),
     Single(KeyA, Arr(<<Obj(Single(KeyX, Str(TextA))), Obj(Single(KeyB, Str(TextB)))>>)),
     Single(KeyA, Arr(<<Str(TextA)>>)),
     Single(KeyA, Arr(<<>>))}

\* what extract_from_file returns: its failure dict, or the dict of
\* _format_output around whatever JSON value the response parsed to
StandardResults ==
    {Failure("extraction failed")}
    \cup {TextOnlyResult(Obj(f)) : f \in CompareMaps}
    \cup {TextOnlyResult(Arr(<<Num(1)>>))}

\* what DataExtractor.extract_page_by_page returns
PageByPageResults ==
    {Failure("extraction failed")}
    \cup {PageByPageResult([m \in 1..n |-> PageResult(m, ExtractFromPage(Raised))], f) :
            n \in 1..MaxPages, f \in CompareMaps}

InitCompare ==
    /\ PipelineIdle
    /\ temp_dir = EmptyBag
    /\ fixer = NoFixer /\ dedup = NoDedup /\ session = NoSession /\ batch = NoBatch
    /\ extractor_result = NoResult
    /\ pdf = NoPdf
    /\ \E standard_result \in StandardResults :
        \E page_by_page_result \in PageByPageResults :
            comparison = [NoComparison EXCEPT
                            !.standard_result = standard_result,
                            !.page_by_page_result = page_by_page_result]

\* self._compare_extraction_results(standard_result, page_by_page_result)
Compare ==
    /\ ~comparison.called
    /\ comparison' = CompareExtractionResults(comparison.standard_result,
                                              comparison.page_by_page_result)
    /\ UNCHANGED <<pipeline, temp_dir, fixer, dedup, session, batch, extractor_result, pdf>>

NextCompare == Compare

SpecCompare == InitCompare /\ [][NextCompare]_vars

-----------------------------------------------------------------------------
(* DocumentProcessor._process_pdf step by step: the text of the PDF, then  *)
(* its pages one at a time                                                 *)

\* '\n\n'.join(text_content) of line 193: per page the header of line 191
\* and the text of the page
PdfText(f) == [n \in 1..f.pages |-> [page |-> n, page_text |-> f.text]]

\* the PDF files of Files
PdfInputs == {f \in Files : f.exists /\ Lower(f.suffix) \in PdfSuffixes}

InitPdf ==
    /\ PipelineIdle
    /\ temp_dir = EmptyBag
    /\ fixer = NoFixer /\ dedup = NoDedup /\ session = NoSession /\ batch = NoBatch
    /\ extractor_result = NoResult
    /\ comparison = NoComparison
    /\ \E f \in PdfInputs, text_fails \in BOOLEAN :
        pdf = [NoPdf EXCEPT !.pc = "text", !.file = f, !.text_fails = text_fails]

PdfRest == <<pipeline, fixer, dedup, session, batch, extractor_result, comparison>>

\* lines 184-198: the text of every page joined, or "" when reading raises
PdfExtractText ==
    /\ pdf.pc = "text"
    /\ pdf' = IF pdf.text_fails
              THEN [pdf EXCEPT !.pc = "render", !.text_content = <<>>]
              ELSE [pdf EXCEPT !.pc = "render", !.text_content = PdfText(pdf.file),
                               !.total_pages = pdf.file.pages]
    /\ UNCHANGED <<PdfRest, temp_dir>>

\* mutant: the except of line 239 also resets the text
PdfRenderRaisesClearsText ==
    /\ pdf.pc = "render"
    /\ pdf.file.render = "fail"
    /\ Len(pdf.image_data) = pdf.file.rendered
    /\ pdf' = [pdf EXCEPT !.pc = "fallback", !.text_content = <<>>]
    /\ UNCHANGED <<PdfRest, temp_dir>>

\* one iteration of the loop of lines 206-231: the page is rendered, saved
\* as page_<n>.png and appended to image_data
PdfRenderPage ==
    /\ pdf.pc = "render"
    /\ Len(pdf.image_data) < pdf.file.pages
    /\ pdf.file.render = "ok" \/ Len(pdf.image_data) < pdf.file.rendered
    /\ LET page_num == Len(pdf.image_data) IN
       /\ temp_dir' = Written(temp_dir, {TempFile("page", page_num + 1)})
       /\ pdf' = [pdf EXCEPT !.image_data = Append(@, Image(page_num + 1, "pdf", FALSE))]
    /\ UNCHANGED PdfRest

\* fitz.open or the rendering of the next page raises: the except of line 239
PdfRenderRaises ==
    /\ pdf.pc = "render"
    /\ pdf.file.render = "fail"
    /\ Len(pdf.image_data) = pdf.file.rendered
    /\ pdf' = [pdf EXCEPT !.pc = "fallback"]
    /\ UNCHANGED <<PdfRest, temp_dir>>

\* lines 234-237 after the last page
PdfRenderDone ==
    /\ pdf.pc = "render"
    /\ pdf.file.render = "ok"
    /\ Len(pdf.image_data) = pdf.file.pages
    /\ pdf' = [pdf EXCEPT !.pc = "done", !.images = pdf.image_data,
                          !.total_pages = Len(pdf.image_data)]
    /\ UNCHANGED <<PdfRest, temp_dir>>

\* lines 244-250: the placeholder pages, or no page at all
PdfFallback ==
    /\ pdf.pc = "fallback"
    /\ LET images == CreateFallbackImages(pdf.file) IN
       /\ pdf' = [pdf EXCEPT !.pc = "done", !.images = images,
                             !.total_pages = Len(images)]
       /\ temp_dir' = Written(temp_dir,
                              {TempFile("page_fallback", n) : n \in 1..Len(images)})
    /\ UNCHANGED PdfRest

NextPdf ==
    \/ PdfExtractText
    \/ PdfRenderPage
    \/ PdfRenderRaises
    \/ PdfRenderDone
    \/ PdfFallback

SpecPdf == InitPdf /\ [][NextPdf]_vars

-----------------------------------------------------------------------------
(* Properties *)

\* the run took the page-by-page path
OnPagePath == processed_doc.error = "" /\ processed_doc.images # <<>>

Successful == {n \in 1..Len(page_results) : page_results[n].success}

\* the keys of the successful pages whose data is an object
PageKeys ==
    UNION {DOMAIN page_results[n].extracted_data.v :
             n \in {m \in Successful : IsDict(page_results[m].extracted_data)}}

\* the successful pages that hold key, in page order
Holders(key) ==
    {n \in Successful : /\ IsDict(page_results[n].extracted_data)
                        /\ key \in DOMAIN page_results[n].extracted_data.v}

\* the value page n returned under key
ValueOn(n, key) == Extracted[n].extracted_data.v[key]

IsScalar(x) == x.k \in {"str", "num", "null"}

\* C1: a page whose service call returned the text t has success=true and:
\* confidence 1.0 and the parsed value when t parses; else confidence 0.9
\* and the parsed repaired value when the repaired text parses; else
\* confidence 0.8 and exactly {"raw_extraction": t}
C1_Classification ==
    \A n \in 1..Len(page_results) :
        ~raw[n].raised =>
            LET t == raw[n].text
                r == page_results[n]
                direct == JsonLoads(t)
                repaired == JsonLoads(FixIncompleteJson(t))
            IN
            /\ r.success
            /\ IF direct.ok
               THEN r.confidence = 10 /\ r.extracted_data = direct.val
               ELSE IF repaired.ok
               THEN r.confidence = 9 /\ r.extracted_data = repaired.val
               ELSE r.confidence = 8
                    /\ r.extracted_data = Obj(Single(RawKey, Str(t)))

\* one document with a parsed, a repaired and a wrapped page
C1_Witness ==
    /\ \E n \in 1..Len(page_results) : page_results[n].confidence = 10
    /\ \E n \in 1..Len(page_results) :
        /\ page_results[n].confidence = 9
        /\ page_results[n].extracted_data = Obj(Single(KeyA, Arr(<<Num(1), Num(2)>>)))
    /\ \E n \in 1..Len(page_results) :
        /\ page_results[n].confidence = 8
        /\ page_results[n].extracted_data = Obj(Single(RawKey, Str(TextCutComma)))

\* the results of the pages whose call did not raise, in page order
RECURSIVE RemainingUpTo(_)
RemainingUpTo(n) ==
    IF n = 0 THEN <<>>
    ELSE IF raw[n].raised THEN RemainingUpTo(n - 1)
    ELSE Append(RemainingUpTo(n - 1), Extracted[n])

\* C2: a page whose service call raised has success=false, confidence 0 and
\* empty data, and the document's aggregation ends as the aggregation of the
\* remaining pages alone ends
C2_FailedPageContributesNothing ==
    /\ \A n \in 1..Len(page_results) :
        raw[n].raised =>
            /\ ~page_results[n].success
            /\ page_results[n].confidence = 0
            /\ page_results[n].extracted_data = Obj(EmptyMap)
    /\ pc = "done" /\ OnPagePath =>
        LET alone == AggregatePageResults(RemainingUpTo(Len(page_results))) IN
        /\ result.success = (alone.error = "")
        /\ result.error = alone.error
        /\ result.aggregated_data = alone.data

\* a document with a failed page between pages that hold data
C2_Witness ==
    /\ pc = "done"
    /\ result.success
    /\ Len(page_results) = 3
    /\ raw[2].raised
    /\ page_results[1].confidence = 10
    /\ page_results[3].confidence = 9
    /\ DOMAIN result.aggregated_data = {KeyA}

C4_AscendingPageNumbers ==
    /\ \A a, b \in 1..Len(calls) :
        a < b => calls[a].page_number < calls[b].page_number
    /\ \A a, b \in 1..Len(page_results) :
        a < b => page_results[a].page_number < page_results[b].page_number

\* the first non-empty value of key, in page order
FirstNonEmpty(key) ==
    LET full == {n \in Holders(key) : Truthy(ValueOn(n, key))}
        first == CHOOSE n \in full : \A m \in full : n <= m
    IN ValueOn(first, key)

RECURSIVE ConcatUpTo(_, _)
\* the arrays under key of the successful pages up to page n, concatenated
ConcatUpTo(key, n) ==
    IF n = 0 THEN <<>>
    ELSE IF n \in Holders(key) THEN ConcatUpTo(key, n - 1) \o ValueOn(n, key).v
    ELSE ConcatUpTo(key, n - 1)

RECURSIVE FirstOccurrences(_, _)
\* s[1..n] without the elements equal to an earlier one
FirstOccurrences(s, n) ==
    IF n = 0 THEN <<>>
    ELSE IF \E m \in 1..(n - 1) : s[m] = s[n] THEN FirstOccurrences(s, n - 1)
    ELSE Append(FirstOccurrences(s, n - 1), s[n])

RECURSIVE HasData(_)
\* x is non-empty and, when it is an object, holds a non-empty value
HasData(x) ==
    IF IsDict(x) THEN \E key \in DOMAIN x.v : HasData(x.v[key]) ELSE Truthy(x)

RECURSIVE NonEmptyPaths(_)
\* the paths of object keys at which the object f holds data
NonEmptyPaths(f) ==
    UNION {{<<key>>} \cup (IF IsDict(f[key])
                           THEN {<<key>> \o path : path \in NonEmptyPaths(f[key].v)}
                           ELSE {}) :
             key \in {x \in DOMAIN f : HasData(f[x])}}

RECURSIVE NonEmptyAt(_, _)
\* the object f holds a non-empty value at path
NonEmptyAt(f, path) ==
    /\ Head(path) \in DOMAIN f
    /\ IF Len(path) = 1 THEN Truthy(f[Head(path)])
       ELSE IsDict(f[Head(path)]) /\ NonEmptyAt(f[Head(path)].v, Tail(path))

\* C7: wherever a successful page holds a non-empty value (a non-empty
\* scalar or array, or an object that holds one), the aggregated document
\* holds a non-empty value at the same path (the claim as stated)
C7_NoDataLost ==
    pc = "done" /\ result.success =>
        \A n \in Successful :
            IsDict(Extracted[n].extracted_data) =>
                \A path \in NonEmptyPaths(Extracted[n].extracted_data.v) :
                    NonEmptyAt(result.aggregated_data, path)

\* C8: once the document has at least one page, no page response makes the
\* document-level result a failure (the claim as stated)
C8_PageResponsesNeverFailDocument ==
    pc = "done" /\ OnPagePath =>
        /\ result.success
        /\ result.page_results = page_results
        /\ result.total_pages = Len(processed_doc.images)

SupportedSuffixes == {".pdf", ".jpg", ".jpeg", ".png", ".bmp", ".tiff", ".html", ".htm"}

\* C9: a missing file fails with file-not-found whatever its suffix, an
\* existing file whose lower-cased suffix is not supported fails with
\* unsupported-format, and in both cases no service call is made and the
\* result is success=false with the error text
C9_FatalInputErrors ==
    pc # "start" =>
        /\ ~file.exists => processed_doc.error = "File not found"
        /\ file.exists =>
            (processed_doc.error = "Unsupported file format"
                <=> Lower(file.suffix) \notin SupportedSuffixes)
        /\ processed_doc.error \in {"File not found", "Unsupported file format"} =>
            /\ pc = "done"
            /\ calls = <<>>
            /\ result = Failure(processed_doc.error)

\* a missing file with an unsupported suffix
C9_Witness ==
    /\ pc = "done"
    /\ ~file.exists
    /\ file.suffix = ".txt"
    /\ result.error = "File not found"
    /\ ~result.success

\* C10: a document without pages gets no page call and exactly one
\* whole-document text-only extraction, whose result is returned (the claim
\* as stated)
C10_ZeroPagesOneTextOnlyCall ==
    pc = "done" /\ processed_doc.error = "" /\ processed_doc.images = <<>> =>
        /\ calls = <<DocumentCall>>
        /\ result.method = "text_only" \/ result.error = "service call failed"

\* C11: a PDF of k >= 1 pages whose rendering fails is returned as exactly k
\* pages numbered 1..k, each a placeholder flagged as fallback that carries
\* the first 500 characters of the page text at most; the page list of a
\* non-empty PDF is never empty, whichever step fails.
C11_FallbackPages ==
    (pc # "start" /\ file.exists /\ Lower(file.suffix) \in PdfSuffixes /\ file.pages >= 1)
    => /\ processed_doc.images # <<>>
       /\ file.render = "fail" =>
            /\ Len(processed_doc.images) = file.pages
            /\ \A n \in 1..file.pages :
                LET image == processed_doc.images[n] IN
                /\ image.page_number = n
                /\ image.fallback
                /\ Len(image.text_content) <= FallbackTextLimit
                /\ image.text_content = SubSeq(file.text, 1, Len(image.text_content))
                /\ Len(image.text_content) = FallbackTextLimit
                    \/ image.text_content = file.text

\* C12: for a text that parses as JSON, the text _fix_incomplete_json returns
\* parses to the same value, also when string literals hold braces,
\* brackets, or a comma before a closing brace or bracket.
C12_RepairKeepsValidJson ==
    (fixer.called /\ JsonLoads(fixer.json_str).ok)
    => /\ JsonLoads(fixer.fixed).ok
       /\ JsonLoads(fixer.fixed).val = JsonLoads(fixer.json_str).val

\* positions of t that hold a comma followed only by whitespace and a
\* closing brace or bracket
TrailingCommas(t) ==
    {p \in 1..Len(t) :
        /\ t[p] = ","
        /\ \E q \in (p + 1)..Len(t) :
            /\ t[q] \in {"}", "]"}
            /\ \A r \in (p + 1)..(q - 1) : t[r] = " "}

\* t without the characters at the positions of S
Without(t, S) ==
    LET kept == (1..Len(t)) \ S IN
    [n \in 1..Cardinality(kept) |->
        t[CHOOSE p \in kept : Cardinality({q \in kept : q <= p}) = n]]

Occurrences(t, c) == Cardinality({p \in 1..Len(t) : t[p] = c})

Max0(n) == IF n > 0 THEN n ELSE 0

\* C13: _fix_incomplete_json removes every comma followed only by whitespace
\* and a closing brace or bracket, then appends max(b,0) "]" and after them
\* max(c,0) "}", b and c being the surplus of "[" over "]" and of "{" over
\* "}", and changes nothing else; {"a": [1, 2 becomes {"a": [1, 2]}.
C13_RepairAlgorithm ==
    fixer.called =>
        LET s == Without(fixer.json_str, TrailingCommas(fixer.json_str))
            b == Occurrences(s, "[") - Occurrences(s, "]")
            c == Occurrences(s, "{") - Occurrences(s, "}")
        IN
        /\ fixer.fixed = s \o [n \in 1..Max0(b) |-> "]"] \o [n \in 1..Max0(c) |-> "}"]
        /\ fixer.json_str = TextCut =>
                fixer.fixed = TextCut \o <<"]", "}">>

\* the truncated text {"a": [1, 2 has been repaired: one bracket, then one
\* brace
C13_Witness ==
    /\ fixer.called
    /\ fixer.json_str = TextCut
    /\ fixer.fixed = <<"{", "\"", "a", "\"", ":", " ", "[", "1", ",", " ", "2", "]", "}">>

\* C14: _deduplicate_list is idempotent: applied to its own result it returns
\* that result, same elements in the same order.
C14_DeduplicateIdempotent ==
    \A n \in 1..(Len(dedup.outputs) - 1) : dedup.outputs[n + 1] = dedup.outputs[n]

\* an array with repeated scalars and repeated objects has been deduplicated
\* twice, and the first application removed elements
C14_Witness ==
    /\ Len(dedup.outputs) >= 2
    /\ Len(dedup.items) = MaxItems
    /\ \E n \in 1..Len(dedup.items) : IsDict(dedup.items[n])
    /\ Len(dedup.outputs[1]) < Len(dedup.items)

IsSuccess(page_result) == page_result.success

\* the data of the successful pages among the first n, in page order, with
\* nothing else of their page results
SuccessfulData(n) ==
    LET kept == SelectSeq(SubSeq(Extracted, 1, n), IsSuccess) IN
    [m \in 1..Len(kept) |->
        [page_number |-> 0, success |-> TRUE,
         extracted_data |-> kept[m].extracted_data, confidence |-> 0]]

\* C15: the merge is a left fold over the pages: the accumulator after the
\* first j pages is the one-pass merge of those pages, it is also what
\* merging the pages after the k-th into the accumulator of the first k
\* gives, for every k, and it depends only on the ordered data of the
\* successful pages.
C15_LeftFold ==
    pc \in {"aggregate", "clean"} =>
        /\ aggregated = FoldPages(EmptyMap, SubSeq(Extracted, 1, j))
        /\ \A k \in 0..j :
            aggregated = FoldPages(FoldPages(EmptyMap, SubSeq(Extracted, 1, k)),
                                   SubSeq(Extracted, k + 1, j))
        /\ aggregated = FoldPages(EmptyMap, SuccessfulData(j))

\* three pages have been folded, a failed one among them, and the last page
\* changed the accumulator of the first two
C15_Witness ==
    /\ pc = "clean"
    /\ j = 3
    /\ \E n \in 1..3 : ~page_results[n].success
    /\ aggregated # FoldPages(EmptyMap, SubSeq(Extracted, 1, 2))
    /\ FoldPages(EmptyMap, SubSeq(Extracted, 1, 2)) # EmptyMap

\* C16: in every processing session (single-file run, batch run, quick batch
\* run) the cleanup step is executed after the last document, and after it
\* no temporary image file remains: a session that had its credentials and
\* its document has run the cleanup when it ends, and temp_images is empty.
C16_SessionEndsCleanedUp ==
    (/\ session.kind \in {"main", "batch", "quick"}
     /\ session.pc = "ended"
     /\ session.configured
     /\ file.exists)
    => session.cleaned /\ temp_dir = EmptyBag

\* C17: the pages of every normalized document are numbered 1..n in list
\* order, without gaps or duplicates; for HTML across both scan passes, also
\* when embedded images fail to decode and are skipped.
C17_PagesNumberedFromOne ==
    (pc # "start" /\ processed_doc.error = "")
    => \A n \in 1..Len(processed_doc.images) :
            processed_doc.images[n].page_number = n

\* the number of files of the data folder that have a supported suffix
DocumentsFound ==
    Cardinality({n \in 1..Len(batch.folder) :
                    Lower(batch.folder[n].suffix) \in SupportedSuffixes})

MergedLast == pc \in {"aggregate", "clean"} /\ j >= 1 /\ page_results[j].success
Before == FoldPages(EmptyMap, SubSeq(Extracted, 1, j - 1))
Incoming == Extracted[j].extracted_data.v

\* the keys both hold an object under
ObjectKeys(existing, incoming) ==
    {key \in DOMAIN existing \cap DOMAIN incoming :
        IsDict(existing[key]) /\ IsDict(incoming[key])}

\* existing array, incoming object, under the keys of one object: the
\* object has become one more element of the array
AppendsObject(existing, incoming, merged) ==
    \A key \in DOMAIN existing \cap DOMAIN incoming :
        (IsList(existing[key]) /\ IsDict(incoming[key]))
        => /\ key \in DOMAIN merged
           /\ merged[key] = Arr(Append(existing[key].v, incoming[key]))

\* C19: when the accumulator holds an array under a key and a later page an
\* object under the same key, the object is appended to the array as one
\* more element, for top-level section keys and for keys inside objects.
C19_ObjectAppendedToArray ==
    MergedLast =>
        /\ AppendsObject(Before, Incoming, aggregated)
        /\ \A key \in ObjectKeys(Before, Incoming) :
            AppendsObject(Before[key].v, Incoming[key].v, aggregated[key].v)

\* the keys of the incoming object that the object and array rules leave to
\* the last rule: a scalar on either side, or no value yet
OtherwiseKeys(existing, incoming) ==
    {key \in DOMAIN incoming :
        \/ key \notin DOMAIN existing
        \/ IsScalar(existing[key])
        \/ IsScalar(incoming[key])}

\* the incoming value has replaced the existing one, unless it is empty and
\* the existing one is not
Overwrites(existing, incoming, merged) ==
    \A key \in OtherwiseKeys(existing, incoming) :
        /\ key \in DOMAIN merged
        /\ merged[key] =
            IF ~Truthy(incoming[key]) /\ key \in DOMAIN existing /\ Truthy(existing[key])
            THEN existing[key]
            ELSE incoming[key]

\* C20: for a key the object and array rules do not handle (a scalar on
\* either side, or a key not yet present), at top level and inside objects
\* alike, the incoming value replaces the existing one, except that an empty
\* incoming value leaves an existing non-empty value unchanged.
C20_OtherwiseOverwrite ==
    MergedLast =>
        /\ Overwrites(Before, Incoming, aggregated)
        /\ \A key \in ObjectKeys(Before, Incoming) :
            Overwrites(Before[key].v, Incoming[key].v, aggregated[key].v)

\* what the merge rules make of an existing and an incoming value that are
\* not both objects
RuleValue(existing, incoming) ==
    IF IsList(existing) /\ IsList(incoming) THEN Arr(existing.v \o incoming.v)
    ELSE IF IsList(existing) /\ IsDict(incoming) THEN Arr(Append(existing.v, incoming))
    ELSE IF IsDict(existing) /\ IsList(incoming) THEN existing
    ELSE IF ~Truthy(incoming) /\ Truthy(existing) THEN existing
    ELSE incoming

RECURSIVE ObjectsMerged(_, _, _)
\* merged holds the union of the keys of existing and incoming, the keys of
\* one side only with their value, the shared keys merged by the rules
ObjectsMerged(existing, incoming, merged) ==
    /\ DOMAIN merged = DOMAIN existing \cup DOMAIN incoming
    /\ \A key \in DOMAIN existing \ DOMAIN incoming : merged[key] = existing[key]
    /\ \A key \in DOMAIN incoming \ DOMAIN existing : merged[key] = incoming[key]
    /\ \A key \in DOMAIN existing \cap DOMAIN incoming :
        IF IsDict(existing[key]) /\ IsDict(incoming[key])
        THEN /\ IsDict(merged[key])
             /\ ObjectsMerged(existing[key].v, incoming[key].v, merged[key].v)
        ELSE merged[key] = RuleValue(existing[key], incoming[key])

\* C21: when the accumulator and the incoming page both hold an object under
\* a key, the result under that key holds the union of both key sets, every
\* key of one side only unchanged, and every shared key merged by the same
\* rules recursively.
C21_ObjectsMergedRecursively ==
    MergedLast =>
        \A key \in ObjectKeys(Before, Incoming) :
            /\ key \in DOMAIN aggregated
            /\ IsDict(aggregated[key])
            /\ ObjectsMerged(Before[key].v, Incoming[key].v, aggregated[key].v)

\* the keys under which existing holds an object and incoming an array
ArrayOnObject(existing, incoming) ==
    {key \in DOMAIN existing \cap DOMAIN incoming :
        IsDict(existing[key]) /\ IsList(incoming[key])}

RECURSIVE WithoutDropped(_, _)
\* incoming without the arrays that meet an object of existing, at every
\* depth of objects
WithoutDropped(existing, incoming) ==
    [key \in DOMAIN incoming \ ArrayOnObject(existing, incoming) |->
        IF key \in DOMAIN existing /\ IsDict(existing[key]) /\ IsDict(incoming[key])
        THEN Obj(WithoutDropped(existing[key].v, incoming[key].v))
        ELSE incoming[key]]

\* C22: when the accumulator holds an object under a key and the page an
\* array under the same key, the object stays as it is and the array is
\* dropped, at top level and inside objects alike, and the other keys of
\* the page are merged as they are without the dropped arrays.
C22_ArrayOnObjectDropped ==
    MergedLast =>
        /\ \A key \in ArrayOnObject(Before, Incoming) : aggregated[key] = Before[key]
        /\ \A key \in ObjectKeys(Before, Incoming) :
            \A inner \in ArrayOnObject(Before[key].v, Incoming[key].v) :
                aggregated[key].v[inner] = Before[key].v[inner]
        /\ aggregated =
            MergePage(Before, [Extracted[j] EXCEPT
                                !.extracted_data = Obj(WithoutDropped(Before, Incoming))])

\* the second page holds an array where the accumulator holds an object, at
\* top level under "a" and inside the object under "b", and its string under
\* "b" has replaced the one kept there
C22_Witness ==
    /\ pc = "clean"
    /\ j = 2
    /\ page_results[2].success
    /\ KeyA \in ArrayOnObject(Before, Incoming)
    /\ KeyB \in ObjectKeys(Before, Incoming)
    /\ KeyX \in ArrayOnObject(Before[KeyB].v, Incoming[KeyB].v)
    /\ aggregated[KeyA] = Before[KeyA]
    /\ aggregated[KeyB].v[KeyX] = Before[KeyB].v[KeyX]
    /\ aggregated[KeyB].v[KeyB] = Str(TextB)
    /\ Before[KeyB].v[KeyB] = Str(TextA)

RECURSIVE NoDuplicates(_)
\* no array of the value x, at any depth, holds two equal elements
NoDuplicates(x) ==
    IF IsList(x)
    THEN /\ \A m, n \in 1..Len(x.v) : m < n => x.v[m] # x.v[n]
         /\ \A n \in 1..Len(x.v) : NoDuplicates(x.v[n])
    ELSE IF IsDict(x) THEN \A key \in DOMAIN x.v : NoDuplicates(x.v[key])
    ELSE TRUE

RECURSIVE FirstKept(_, _)
\* the arrays of cleaned, at every depth of objects, are the first
\* occurrences of the elements of the arrays merged holds at the same place
FirstKept(merged, cleaned) ==
    \A key \in DOMAIN cleaned :
        /\ key \in DOMAIN merged
        /\ IsList(cleaned[key]) =>
            /\ IsList(merged[key])
            /\ cleaned[key].v = FirstOccurrences(merged[key].v, Len(merged[key].v))
        /\ IsDict(cleaned[key]) =>
            /\ IsDict(merged[key])
            /\ FirstKept(merged[key].v, cleaned[key].v)

\* C23: in the aggregated document _aggregate_page_results returns, no array
\* at any depth, arrays inside objects that are array elements included,
\* holds two equal elements (objects compared structurally, whatever the
\* order of their keys), and the elements kept are in first-occurrence order.
C23_NoDuplicatesAtAnyDepth ==
    pc = "done" /\ result.success =>
        /\ NoDuplicates(Obj(result.aggregated_data))
        /\ FirstKept(aggregated, result.aggregated_data)

\* an empty string, null, an empty object or an empty array
IsEmpty(x) == x \in {Str(<<>>), Null, Obj(EmptyMap), Arr(<<>>)}

RECURSIVE NoEmptyKeys(_)
\* no object of the value x, at any depth, holds an empty value under a key
NoEmptyKeys(x) ==
    IF IsDict(x)
    THEN \A key \in DOMAIN x.v : ~IsEmpty(x.v[key]) /\ NoEmptyKeys(x.v[key])
    ELSE IF IsList(x) THEN \A n \in 1..Len(x.v) : NoEmptyKeys(x.v[n])
    ELSE TRUE

\* C24: in the aggregated document _aggregate_page_results returns, no
\* object at any depth, the top-level map of sections included, holds a key
\* whose value is empty (empty string, null, empty object, empty array), also
\* when the value is empty only because its own empty keys were dropped.
C24_NoEmptyKeys ==
    pc = "done" /\ result.success => NoEmptyKeys(Obj(result.aggregated_data))

\* C25: aggregation does not modify the per-page results: after
\* _aggregate_page_results has returned, every entry of page_results holds
\* the data the page's own response parsed to, and so do the page_results
\* reported next to aggregated_data.
C25_PageResultsUnmodified ==
    /\ pc = "clean" => page_results = Extracted
    /\ pc = "done" /\ result.success /\ result.method = "page_by_page" =>
        result.page_results = Extracted

\* C26: within one session every temporary image file is written at most
\* once: processing further documents, or the same document by both the
\* whole-document and the page-by-page path, never writes again to a path
\* of temp_images that was already written.
C26_TempFilesWrittenOnce ==
    \A path \in BagToSet(temp_dir) : CopiesIn(path, temp_dir) <= 1

\* C27: DataExtractor.extract_page_by_page returns the result of
\* PageByPageExtractor.extract_page_by_page unchanged, with the same success
\* flag, for the per-page shape and for the text-only shape returned for a
\* document without pages.
C27_ExtractorResultPassedOn ==
    extractor_result.returned =>
        /\ extractor_result.success = result.success
        /\ extractor_result = result

\* C28: _deduplicate_list removes an element only if an equal element occurs
\* earlier in the array: what it returns is the array without the elements
\* equal to an earlier one, so that a scalar is never removed because of an
\* earlier object, nor an object because of an earlier scalar.
C28_OnlyDuplicatesRemoved ==
    Len(dedup.outputs) >= 1 =>
        dedup.outputs[1] = FirstOccurrences(dedup.items, Len(dedup.items))

\* C29: when both results succeeded, the comparison reports counts over the
\* dotted field paths of the two results that satisfy standard_fields =
\* common_fields + |standard_only| and page_by_page_fields = common_fields +
\* |page_by_page_only|; when either failed, field_coverage is empty and the
\* only recommendation says that a method failed; the arguments are as they
\* were passed.
C29_ComparisonCounts ==
    comparison.called =>
        LET coverage == comparison.field_coverage IN
        /\ comparison.error = ""
        /\ IF comparison.standard_result.success /\ comparison.page_by_page_result.success
           THEN /\ DOMAIN coverage # {}
                /\ coverage.standard_fields
                    = coverage.common_fields + Cardinality(coverage.standard_only)
                /\ coverage.page_by_page_fields
                    = coverage.common_fields + Cardinality(coverage.page_by_page_only)
           ELSE /\ DOMAIN coverage = {}
                /\ comparison.recommendations = <<"One or both extraction methods failed">>

\* the text the text phase of _process_pdf leaves for the file
TextPhaseResult == IF pdf.text_fails THEN <<>> ELSE PdfText(pdf.file)

\* C30: in _process_pdf no page is rendered or saved before text extraction
\* has completed, and text_content stays what text extraction produced
\* through every outcome of the imaging phase: rendered pages, placeholder
\* pages, or no page at all.
C30_TextBeforeAndApartFromImaging ==
    /\ pdf.pc = "text" =>
            pdf.image_data = <<>> /\ pdf.images = <<>> /\ temp_dir = EmptyBag
    /\ pdf.pc \in {"render", "fallback", "done"} => pdf.text_content = TextPhaseResult

\* imaging failed altogether for a PDF with pages, and the text is there
C30_Witness ==
    /\ pdf.pc = "done"
    /\ pdf.file.pages > 0
    /\ pdf.file.render = "fail" /\ pdf.file.fallback = "fail"
    /\ pdf.images = <<>>
    /\ pdf.text_content # <<>>
    /\ pdf.text_content = PdfText(pdf.file)

====
